---- MODULE Spec2Model ----
(***************************************************************************)
(* Model of the Bluetooth hand-off controller of bt_switch.py: the command *)
(* executors, the BlueZ driver, the driver factory, the push/pull service  *)
(* and the command-line entry point that turns failures into exit codes.   *)
(*                                                                         *)
(* Text that the program inspects (captured stdout and stderr) is a        *)
(* sequence of one-character strings, so that strip(), lower() and the     *)
(* substring tests are computed as the program computes them.  Command     *)
(* words, which the program only passes on, are plain strings.             *)
(***************************************************************************)
EXTENDS Integers, Sequences, FiniteSets, TLC

VARIABLES
    pc,         \* position of entry_point / SwitchService.run
    hostname,   \* socket.gethostname()
    config,     \* outcome of load_config(): an AppConfig or a ConfigurationError
    argTarget,  \* entry_point's target argument
    argDevice,  \* entry_point's device argument
    service,    \* the SwitchService built by entry_point (NoService before)
    connected,  \* the bluetooth stacks: is the device connected at each endpoint
    calls,      \* Driver operations issued so far, in order, with their results
    cmds,       \* argument vectors handed to subprocess.run so far, in order
    logs,       \* loguru records emitted so far, in order
    exitCode,   \* process exit status (meaningful once pc = "done")
    raised,     \* the exception that reached entry_point's handlers (NoExc if none)
    probe,      \* last call of the component harness (SpecDriver only)
    ror,        \* run_or_raise.py: one run of main (SpecRor only)
    ts,         \* ts_exit.py: the tailscale preferences and runs of toggle (SpecTs only)
    world,      \* changes of the bluetooth stacks made from outside the run (SpecWorld only)
    duo,        \* two concurrent runs of SwitchService.run (SpecDuo only)
    tui         \* convert-images.py: the state of ImageConversionApp (SpecTui only)

vars == <<pc, hostname, config, argTarget, argDevice, service, connected,
          calls, cmds, logs, exitCode, raised, probe, ror, ts, world, duo, tui>>

-----------------------------------------------------------------------------
(* The other scripts at rest *)

\* run_or_raise.py before main is entered
NoRor ==
    [pc |-> "idle", argv |-> <<>>,
     config |-> [launch_id |-> <<>>, search_flag |-> <<>>, search_pattern |-> <<>>],
     found |-> "none", window_ids |-> <<>>, events |-> <<>>, exit |-> 0]

\* ts_exit.py before toggle is entered
NoTs ==
    [pc |-> "idle", target |-> "", advertise |-> FALSE, exit_node |-> "",
     current |-> "", before |-> [advertising |-> FALSE, using |-> FALSE],
     cmds |-> <<>>, exit |-> 0, log |-> <<>>]

\* no second run of bt_switch.py
NoDuo == [pc |-> <<>>, log |-> <<>>, exit |-> <<>>]

\* convert-images.py before the application is constructed
NoTui ==
    [pc |-> "idle", dropped_files |-> {}, disabled |-> TRUE, format |-> "png",
     last |-> [event |-> "none", text |-> <<>>, outcome |-> "none",
               files |-> {}, disabled |-> TRUE]]

-----------------------------------------------------------------------------
(* Bounds of the model *)

\* most whitespace characters a tool prints around its stdout / stderr
MaxPad == 1

-----------------------------------------------------------------------------
(* Text *)

Whitespace == {" ", "\n", "\t"}

UpperLetters ==
    <<"A", "B", "C", "D", "E", "F", "G", "H", "I", "J", "K", "L", "M",
      "N", "O", "P", "Q", "R", "S", "T", "U", "V", "W", "X", "Y", "Z">>

LowerLetters ==
    <<"a", "b", "c", "d", "e", "f", "g", "h", "i", "j", "k", "l", "m",
      "n", "o", "p", "q", "r", "s", "t", "u", "v", "w", "x", "y", "z">>

LowerChar(c) ==
    IF \E i \in 1..Len(UpperLetters) : UpperLetters[i] = c
    THEN LowerLetters[CHOOSE i \in 1..Len(UpperLetters) : UpperLetters[i] = c]
    ELSE c

\* str.lower()
Lower(s) == [i \in 1..Len(s) |-> LowerChar(s[i])]

\* str.strip()
Strip(s) ==
    LET keep == {i \in 1..Len(s) : s[i] \notin Whitespace}
    IN  IF keep = {} THEN <<>>
        ELSE SubSeq(s, CHOOSE i \in keep : \A j \in keep : i <= j,
                       CHOOSE i \in keep : \A j \in keep : j <= i)

\* needle in hay
Contains(hay, needle) ==
    \E i \in 0..(Len(hay) - Len(needle)) :
        SubSeq(hay, i + 1, i + Len(needle)) = needle

DigitChars == <<"0", "1", "2", "3", "4", "5", "6", "7", "8", "9">>

RECURSIVE Decimal(_)
\* str(n) of a natural number, as in an f-string
Decimal(n) ==
    IF n < 10 THEN <<DigitChars[n + 1]>>
    ELSE Decimal(n \div 10) \o <<DigitChars[(n % 10) + 1]>>

ConnectedYesMarker ==
    <<"C", "o", "n", "n", "e", "c", "t", "e", "d", ":", " ", "y", "e", "s">>

NotAvailableMarker ==
    <<"n", "o", "t", " ", "a", "v", "a", "i", "l", "a", "b", "l", "e">>

TimedOutPrefix ==
    <<"T", "i", "m", "e", "d", " ", "o", "u", "t", " ", "a", "f", "t", "e", "r", " ">>

SshTimedOutPrefix ==
    <<"S", "S", "H", " ", "T", "i", "m", "e", "d", " ", "o", "u", "t", " ",
      "a", "f", "t", "e", "r", " ">>

SecondsSuffix == <<"s">>

-----------------------------------------------------------------------------
(* What the external tools print *)

OutInfoYes ==
    <<"P", "a", "i", "r", "e", "d", ":", " ", "y", "e", "s", "\n", "\t",
      "C", "o", "n", "n", "e", "c", "t", "e", "d", ":", " ", "y", "e", "s">>

OutInfoNo ==
    <<"P", "a", "i", "r", "e", "d", ":", " ", "y", "e", "s", "\n", "\t",
      "C", "o", "n", "n", "e", "c", "t", "e", "d", ":", " ", "n", "o">>

OutDone == <<"S", "u", "c", "c", "e", "s", "s", "f", "u", "l">>

ErrNotAvailable ==
    <<"D", "e", "v", "i", "c", "e", " ", "n", "o", "t", " ",
      "a", "v", "a", "i", "l", "a", "b", "l", "e">>

ErrNotAvailableCaps ==
    <<"D", "e", "v", "i", "c", "e", " ", "N", "o", "t", " ",
      "A", "v", "a", "i", "l", "a", "b", "l", "e">>

ErrFailed ==
    <<"F", "a", "i", "l", "e", "d", ":", " ", "l", "e", "-", "c", "o", "n", "n",
      "e", "c", "t", "i", "o", "n", "-", "a", "b", "o", "r", "t">>

ErrUnavailable ==
    <<"H", "o", "s", "t", " ", "u", "n", "a", "v", "a", "i", "l", "a", "b", "l", "e">>

RECURSIVE Newlines(_)
Newlines(n) == IF n = 0 THEN <<>> ELSE <<"\n">> \o Newlines(n - 1)

\* a text as a tool prints it: with up to MaxPad newlines before and after
Padded(s) == {Newlines(a) \o s \o Newlines(b) : a \in 0..MaxPad, b \in 0..MaxPad}

-----------------------------------------------------------------------------
(* Exceptions and results *)

NoExc == [type |-> "none", cmd |-> <<>>, stderr |-> <<>>, msg |-> ""]

\* ExecutionError(cmd, stderr)
ExecutionError(cmd, stderr) ==
    [type |-> "ExecutionError", cmd |-> cmd, stderr |-> stderr, msg |-> "Command failed"]

\* ConfigurationError(msg)
ConfigurationError(msg) ==
    [type |-> "ConfigurationError", cmd |-> <<>>, stderr |-> <<>>, msg |-> msg]

\* an exception that is no BtSwitchError (raised by the standard library)
OtherError(type, cmd) ==
    [type |-> type, cmd |-> cmd, stderr |-> <<>>, msg |-> ""]

Ret(v) == [tag |-> "ret", val |-> v, exc |-> NoExc]

Raise(e) == [tag |-> "raise", val |-> <<>>, exc |-> e]

\* variant: only ExecutionError is taken for a BtSwitchError
OnlyExecutionError(e) == e.type = "ExecutionError"

\* isinstance(e, BtSwitchError)
IsBtSwitchError(e) == e.type \in {"ExecutionError", "ConfigurationError"}

-----------------------------------------------------------------------------
(* Command Executor *)

\* how one child process ends: the environment's answer to one subprocess.run
ProcKinds == {"exit0", "nonzero", "timeout", "enoent"}

Proc(kind, stdout, stderr) == [kind |-> kind, stdout |-> stdout, stderr |-> stderr]

\* subprocess.run(argv, capture_output=True, text=True, check=True, timeout=t)
SubprocessRun(argv, timeout, proc) ==
    CASE proc.kind = "exit0"   -> [tag |-> "ret", type |-> "CompletedProcess",
                                   stdout |-> proc.stdout, stderr |-> proc.stderr]
      [] proc.kind = "nonzero" -> [tag |-> "raise", type |-> "CalledProcessError",
                                   stdout |-> proc.stdout, stderr |-> proc.stderr]
      [] proc.kind = "timeout" -> [tag |-> "raise", type |-> "TimeoutExpired",
                                   stdout |-> <<>>, stderr |-> <<>>]
      [] proc.kind = "enoent"  -> [tag |-> "raise", type |-> "FileNotFoundError",
                                   stdout |-> <<>>, stderr |-> <<>>]

\* LocalExecutor.run
LocalExecutorRun(cmd, timeout, proc) ==
    LET r == SubprocessRun(cmd, timeout, proc)
    IN  CASE r.tag = "ret" -> Ret(Strip(r.stdout))
          [] r.type = "TimeoutExpired" ->
                Raise(ExecutionError(cmd,
                        TimedOutPrefix \o Decimal(timeout) \o SecondsSuffix))
          [] r.type = "CalledProcessError" ->
                Raise(ExecutionError(cmd, Strip(r.stderr)))
          [] OTHER -> Raise(OtherError(r.type, cmd))

RECURSIVE ShlexJoin(_)
\* shlex.join(cmd); the words of the three commands hold no character that
\* shlex quotes, so the words are joined by single spaces
ShlexJoin(cmd) ==
    IF Len(cmd) = 0 THEN ""
    ELSE IF Len(cmd) = 1 THEN cmd[1]
    ELSE cmd[1] \o " " \o ShlexJoin(Tail(cmd))

\* the ssh argument vector SshExecutor.run builds
SshCmd(host, cmd) ==
    <<"ssh", "-o", "ConnectTimeout=5", "-o", "StrictHostKeyChecking=no",
      "-o", "LogLevel=ERROR", host.user \o "@" \o host.address, "--",
      ShlexJoin(cmd)>>

\* SshExecutor.run
SshExecutorRun(host, cmd, timeout, proc) ==
    LET ssh_cmd == SshCmd(host, cmd)
        r == SubprocessRun(ssh_cmd, timeout, proc)
    IN  CASE r.tag = "ret" -> Ret(Strip(r.stdout))
          [] r.type = "TimeoutExpired" ->
                Raise(ExecutionError(ssh_cmd,
                        SshTimedOutPrefix \o Decimal(timeout) \o SecondsSuffix))
          [] r.type = "CalledProcessError" ->
                Raise(ExecutionError(ssh_cmd, Strip(r.stderr)))
          [] OTHER -> Raise(OtherError(r.type, ssh_cmd))

NoHost == [address |-> "", user |-> "", protocol |-> "local", driver_type |-> "bluez"]

\* LocalExecutor()
LocalExecutor == [kind |-> "local", host |-> NoHost]

\* SshExecutor(host)
SshExecutor(host) == [kind |-> "ssh", host |-> host]

\* the argument vector an executor hands to subprocess.run for cmd
Argv(executor, cmd) ==
    IF executor.kind = "local" THEN cmd ELSE SshCmd(executor.host, cmd)

\* Executor.run, dispatched on the executor's class
ExecutorRun(executor, cmd, timeout, proc) ==
    IF executor.kind = "local"
    THEN LocalExecutorRun(cmd, timeout, proc)
    ELSE SshExecutorRun(executor.host, cmd, timeout, proc)

-----------------------------------------------------------------------------
(* Bluetooth Driver *)

InfoTimeout == 5

ConnectTimeout == 15

DisconnectTimeout == 8

\* the command each BluezDriver method runs
BluezCmd(op, mac) ==
    CASE op = "is_connected" -> <<"bluetoothctl", "info", mac>>
      [] op = "connect"      -> <<"bluetoothctl", "connect", mac>>
      [] op = "disconnect"   -> <<"bluetoothctl", "disconnect", mac>>

\* variant: the answer is the exit status alone
IsConnectedOnExitStatus(executor, mac, proc) ==
    LET r == ExecutorRun(executor, BluezCmd("is_connected", mac), InfoTimeout, proc)
    IN  CASE r.tag = "ret" -> Ret(TRUE)
          [] r.exc.type = "ExecutionError" -> Ret(FALSE)
          [] OTHER -> r

\* BluezDriver.is_connected
BluezIsConnected(executor, mac, proc) ==
    LET r == ExecutorRun(executor, BluezCmd("is_connected", mac), InfoTimeout, proc)
    IN  CASE r.tag = "ret" -> Ret(Contains(r.val, ConnectedYesMarker))
          [] r.exc.type = "ExecutionError" -> Ret(FALSE)
          [] OTHER -> r

\* variant: connect ignores the executor's failure
ConnectSwallows(executor, mac, proc) ==
    LET r == ExecutorRun(executor, BluezCmd("connect", mac), ConnectTimeout, proc)
    IN  IF r.tag = "ret" THEN Ret(FALSE) ELSE Ret(FALSE)

\* BluezDriver.connect (returns None, modelled as FALSE)
BluezConnect(executor, mac, proc) ==
    LET r == ExecutorRun(executor, BluezCmd("connect", mac), ConnectTimeout, proc)
    IN  IF r.tag = "ret" THEN Ret(FALSE) ELSE r

\* variant: the test without lower()
AbsorbsCaseSensitive(stderr) == Contains(stderr, NotAvailableMarker)

\* variant: every ExecutionError of the disconnect is absorbed
AbsorbsEverything(stderr) == TRUE

\* "not available" in e.stderr.lower()
DisconnectAbsorbs(stderr) == Contains(Lower(stderr), NotAvailableMarker)

\* BluezDriver.disconnect (returns None, modelled as FALSE)
BluezDisconnect(executor, mac, proc) ==
    LET r == ExecutorRun(executor, BluezCmd("disconnect", mac), DisconnectTimeout, proc)
    IN  CASE r.tag = "ret" -> Ret(FALSE)
          [] r.exc.type = "ExecutionError" /\ DisconnectAbsorbs(r.exc.stderr) -> Ret(FALSE)
          [] OTHER -> r

\* BluezDriver(executor)
BluezDriver(executor) == [type |-> "bluez", executor |-> executor]

\* a Driver method call, dispatched on the method name
DriverCall(driver, op, mac, proc) ==
    CASE op = "is_connected" -> BluezIsConnected(driver.executor, mac, proc)
      [] op = "connect"      -> BluezConnect(driver.executor, mac, proc)
      [] op = "disconnect"   -> BluezDisconnect(driver.executor, mac, proc)

-----------------------------------------------------------------------------
(* Driver Factory *)

\* variant: the protocol of a remote host is not examined
DriverFactoryAnyProtocol(host_config, is_local) ==
    IF host_config.driver_type = "bluez"
    THEN Ret(BluezDriver(IF is_local THEN LocalExecutor ELSE SshExecutor(host_config)))
    ELSE Raise(ConfigurationError("Unsupported driver"))

\* DriverFactory.create
DriverFactoryCreate(host_config, is_local) ==
    IF ~is_local /\ host_config.protocol # "ssh"
    THEN Raise(ConfigurationError("Unsupported protocol"))
    ELSE IF host_config.driver_type = "bluez"
    THEN Ret(BluezDriver(IF is_local THEN LocalExecutor ELSE SshExecutor(host_config)))
    ELSE Raise(ConfigurationError("Unsupported driver"))

-----------------------------------------------------------------------------
(* Configuration and command line, as entry_point receives them *)

NoneArg == "<None>"

Endpoints == {"local", "remote"}

ThisHost == "lap"

\* Host values the configuration file may declare (pydantic admits only
\* these protocol and driver_type literals)
HostSet ==
    [address : {"desk", ThisHost}, user : {"me"},
     protocol : {"ssh", "local"}, driver_type : {"bluez", "macos"}]

DeviceSet == {[mac |-> "AA:BB", name |-> "Headphones"]}

DefaultSettingsSet == {[default_device |-> "hp", default_target |-> "desk"]}

\* tables with a string key: the empty table or one entry
Tables(key, values) == {<<>>} \cup {[k \in {key} |-> v] : v \in values}

\* load_config(): an AppConfig, or a ConfigurationError (file missing or invalid)
ConfigSet ==
    {[tag |-> "raise", devices |-> <<>>, hosts |-> <<>>, defaults |-> <<>>]}
    \cup [tag : {"ret"}, devices : Tables("hp", DeviceSet),
          hosts : Tables("desk", HostSet),
          defaults : Tables(ThisHost, DefaultSettingsSet)]

TargetArgs == {NoneArg, "", "desk", "nas"}

DeviceArgs == {NoneArg, "hp", "kbd"}

\* Python's `a or b` on an optional string
OrElse(a, b) == IF a = NoneArg \/ a = "" THEN b ELSE a

\* the host the local driver is created for
LocalHostCfg ==
    [address |-> "localhost", user |-> "", protocol |-> "local", driver_type |-> "bluez"]

NoDriver == [type |-> "none", executor |-> LocalExecutor]

NoService ==
    [local |-> NoDriver, remote |-> NoDriver,
     device |-> [mac |-> "", name |-> ""], target_name |-> ""]

\* SwitchService(local_driver, remote_driver, device, target_name)
SwitchService(local_driver, remote_driver, device, target_name) ==
    [local |-> local_driver, remote |-> remote_driver,
     device |-> device, target_name |-> target_name]

\* variant: the self-targeting check is missing
SelfTargetNever(address, host) == FALSE

\* the self-targeting check of entry_point
IsSelfTarget(address, host) == address = host

\* entry_point up to the construction of the service: "return" is the
\* self-targeting return, "ret" carries the service, "raise" the exception
EntryPointSetup(cfg, host, target, device) ==
    IF cfg.tag = "raise"
    THEN Raise(ConfigurationError("Config not found or parse error"))
    ELSE IF host \notin DOMAIN cfg.defaults
    THEN Raise(ConfigurationError("Hostname not in [defaults]"))
    ELSE
      LET defaults     == cfg.defaults[host]
          target_alias == OrElse(target, defaults.default_target)
          device_alias == OrElse(device, defaults.default_device)
      IN  IF target_alias \notin DOMAIN cfg.hosts
          THEN Raise(ConfigurationError("Target not in [hosts]"))
          ELSE IF device_alias \notin DOMAIN cfg.devices
          THEN Raise(ConfigurationError("Device not in [devices]"))
          ELSE
            LET device_obj      == cfg.devices[device_alias]
                remote_host_cfg == cfg.hosts[target_alias]
                local_driver    == DriverFactoryCreate(LocalHostCfg, TRUE)
                remote_driver   == DriverFactoryCreate(remote_host_cfg, FALSE)
            IN  IF IsSelfTarget(remote_host_cfg.address, host)
                THEN [tag |-> "return", val |-> NoService, exc |-> NoExc]
                ELSE IF local_driver.tag = "raise" THEN local_driver
                ELSE IF remote_driver.tag = "raise" THEN remote_driver
                ELSE Ret(SwitchService(local_driver.val, remote_driver.val,
                                       device_obj, target_alias))

-----------------------------------------------------------------------------
(* The bluetooth stacks and the tools' answers *)

\* what a command that exits with status 0 does to the stacks: a connect
\* moves the device to that endpoint, a disconnect releases it there
Effect(conn, ep, op, proc) ==
    IF proc.kind # "exit0" THEN conn
    ELSE CASE op = "connect"    -> [e \in Endpoints |-> e = ep]
           [] op = "disconnect" -> [conn EXCEPT ![ep] = FALSE]
           [] OTHER             -> conn

\* the ways the child process of one Driver operation can end.  The status
\* query prints the stack's state; "not available" is what the tool prints
\* for a device the endpoint does not hold
ProcChoices(conn, ep, op) ==
    {Proc("timeout", <<>>, <<>>), Proc("enoent", <<>>, <<>>)}
    \cup {Proc("nonzero", <<>>, e) : e \in Padded(ErrFailed) \cup {<<>>, ErrUnavailable}}
    \cup (CASE op = "is_connected" ->
                 {Proc("exit0", o, <<>>) :
                     o \in IF conn[ep] THEN Padded(OutInfoYes)
                                      ELSE Padded(OutInfoNo) \cup {<<>>}}
            [] op = "connect" ->
                 {Proc("exit0", o, <<>>) : o \in Padded(OutDone)}
            [] op = "disconnect" ->
                 {Proc("exit0", o, <<>>) : o \in Padded(OutDone)}
                 \cup (IF conn[ep] THEN {}
                       ELSE {Proc("nonzero", <<>>, e) :
                               e \in Padded(ErrNotAvailable) \cup {ErrNotAvailableCaps}}))

-----------------------------------------------------------------------------
(* The run: entry_point and SwitchService *)

Log(level, msg) == [level |-> level, msg |-> msg]

Call(ep, op, proc, r) == [ep |-> ep, op |-> op, proc |-> proc, res |-> r]

\* the harness record of one component call
Probe(op, executor, proc, r) ==
    [op |-> op, executor |-> executor, proc |-> proc, res |-> r]

NoProbe == Probe("none", LocalExecutor, Proc("exit0", <<>>, <<>>), Ret(FALSE))

Init ==
    /\ pc = "start"
    /\ hostname = ThisHost
    /\ config \in ConfigSet
    /\ argTarget \in TargetArgs
    /\ argDevice \in DeviceArgs
    /\ service = NoService
    /\ connected \in {c \in [Endpoints -> BOOLEAN] : ~(c["local"] /\ c["remote"])}
    /\ calls = <<>>
    /\ cmds = <<>>
    /\ logs = <<>>
    /\ exitCode = 0
    /\ raised = NoExc
    /\ probe = NoProbe
    /\ ror = NoRor
    /\ ts = NoTs
    /\ world = <<>>
    /\ duo = NoDuo
    /\ tui = NoTui

Driver(ep) == IF ep = "local" THEN service.local ELSE service.remote

\* variant: a command that fails is run a second time
IssueWithRetry(ep, op, proc, r) ==
    LET argv == Argv(Driver(ep).executor, BluezCmd(op, service.device.mac))
    IN  /\ r = DriverCall(Driver(ep), op, service.device.mac, proc)
        /\ calls' = Append(calls, Call(ep, op, proc, r))
        /\ cmds' = IF proc.kind = "exit0" THEN Append(cmds, argv)
                                          ELSE cmds \o <<argv, argv>>
        /\ connected' = Effect(connected, ep, op, proc)

\* one Driver operation on endpoint ep whose child process ends as proc and
\* whose result is r: the call and its command are recorded, the stack changes
Issue(ep, op, proc, r) ==
    /\ r = DriverCall(Driver(ep), op, service.device.mac, proc)
    /\ calls' = Append(calls, Call(ep, op, proc, r))
    /\ cmds' = Append(cmds, Argv(Driver(ep).executor, BluezCmd(op, service.device.mac)))
    /\ connected' = Effect(connected, ep, op, proc)

\* variant: the handlers log but leave the exit status alone
ExitStatusZero(e) == 0

\* the exit status of entry_point's two handlers: sys.exit(1)
ExitStatus(e) == 1

\* the record entry_point's handlers log before exiting
HandlerLog(e) ==
    IF IsBtSwitchError(e) THEN Log("ERROR", e.msg) ELSE Log("EXCEPTION", "Unexpected error")

\* variant: the handlers do not end the process, entry_point starts over
ExitsStartsOver(newlogs, e) ==
    /\ pc' = "start"
    /\ logs' = logs
    /\ exitCode' = exitCode
    /\ raised' = raised

\* entry_point returns normally: the process ends with status 0
Returns(newlogs) ==
    /\ pc' = "done"
    /\ logs' = newlogs
    /\ exitCode' = 0
    /\ raised' = raised

\* exception e reaches entry_point's handlers
Exits(newlogs, e) ==
    /\ pc' = "done"
    /\ logs' = Append(newlogs, HandlerLog(e))
    /\ exitCode' = ExitStatus(e)
    /\ raised' = e

\* control moves on inside the service
Goes(next, newlogs) ==
    /\ pc' = next
    /\ logs' = newlogs
    /\ exitCode' = exitCode
    /\ raised' = raised

\* entry_point, lines 224-259: configuration, aliases, self-targeting check,
\* drivers, service
EntryPoint ==
    /\ pc = "start"
    /\ LET r == EntryPointSetup(config, hostname, argTarget, argDevice)
       IN  CASE r.tag = "raise" ->
                  /\ Exits(logs, r.exc)
                  /\ service' = service
             [] r.tag = "return" ->
                  /\ Returns(Append(logs, Log("WARNING", "Target is localhost. Nothing to switch.")))
                  /\ service' = service
             [] r.tag = "ret" ->
                  /\ Goes("query", logs)
                  /\ service' = r.val
    /\ UNCHANGED <<hostname, config, argTarget, argDevice, connected, calls, cmds, probe, ror, ts, world, duo, tui>>

\* variant: the two branches of run are swapped
BranchSwapped(is_conn) == IF is_conn THEN "pull_disconnect" ELSE "push_disconnect"

\* variant: the branch follows the stack's state at the time, not the answer
BranchOnStack(is_conn) ==
    IF connected["local"] THEN "push_disconnect" ELSE "pull_disconnect"

\* SwitchService.run: the branch taken on the status query's answer
Branch(is_conn) == IF is_conn THEN "push_disconnect" ELSE "pull_disconnect"

\* SwitchService.run: the status query and the branch
Query ==
    /\ pc = "query"
    /\ \E proc \in ProcChoices(connected, "local", "is_connected") :
         \E r \in {DriverCall(Driver("local"), "is_connected", service.device.mac, proc)} :
           LET l1 == Append(logs, Log("INFO", "Checking connection status"))
           IN  /\ Issue("local", "is_connected", proc, r)
               /\ CASE r.tag = "raise" -> Exits(l1, r.exc)
                    [] r.tag = "ret" /\ Branch(r.val) = "push_disconnect" ->
                         Goes("push_disconnect",
                              Append(l1, Log("INFO", "Device connected locally. Initiating PUSH.")))
                    [] OTHER ->
                         Goes("pull_disconnect",
                              Append(l1, Log("INFO", "Device not local. Initiating PULL.")))
    /\ UNCHANGED <<hostname, config, argTarget, argDevice, service, probe, ror, ts, world, duo, tui>>

\* variant: the local disconnect of the push is best effort
PushDisconnectBestEffort ==
    /\ pc = "push_disconnect"
    /\ \E proc \in ProcChoices(connected, "local", "disconnect") :
         \E r \in {DriverCall(Driver("local"), "disconnect", service.device.mac, proc)} :
           /\ Issue("local", "disconnect", proc, r)
           /\ Goes("push_connect", Append(logs, Log("INFO", "Disconnecting local...")))
    /\ UNCHANGED <<hostname, config, argTarget, argDevice, service, probe, ror, ts, world, duo, tui>>

\* _handle_push: the local disconnect
PushDisconnect ==
    /\ pc = "push_disconnect"
    /\ \E proc \in ProcChoices(connected, "local", "disconnect") :
         \E r \in {DriverCall(Driver("local"), "disconnect", service.device.mac, proc)} :
           LET l1 == Append(logs, Log("INFO", "Disconnecting local..."))
           IN  /\ Issue("local", "disconnect", proc, r)
               /\ IF r.tag = "raise" THEN Exits(l1, r.exc)
                  ELSE Goes("push_connect", l1)
    /\ UNCHANGED <<hostname, config, argTarget, argDevice, service, probe, ror, ts, world, duo, tui>>

\* the except clause of _handle_push
PushCatches(e) == e.type = "ExecutionError"

\* _handle_push: the remote connect
PushConnect ==
    /\ pc = "push_connect"
    /\ \E proc \in ProcChoices(connected, "remote", "connect") :
         \E r \in {DriverCall(Driver("remote"), "connect", service.device.mac, proc)} :
           LET l1 == Append(logs, Log("INFO", "Connecting remote..."))
           IN  /\ Issue("remote", "connect", proc, r)
               /\ CASE r.tag = "ret" ->
                         Returns(Append(l1, Log("SUCCESS", "Successfully pushed")))
                    [] r.tag = "raise" /\ PushCatches(r.exc) ->
                         Goes("revert",
                              Append(Append(l1, Log("ERROR", "Failed to connect remote")),
                                     Log("WARNING", "Reverting local connection...")))
                    [] OTHER -> Exits(l1, r.exc)
    /\ UNCHANGED <<hostname, config, argTarget, argDevice, service, probe, ror, ts, world, duo, tui>>

\* variant: the except clause tries the remote connect again
RevertEndpointRemote == "remote"

\* the driver the except clause of _handle_push connects: self.local
RevertEndpoint == "local"

\* _handle_push: the local connect of the except clause
Revert ==
    /\ pc = "revert"
    /\ \E proc \in ProcChoices(connected, RevertEndpoint, "connect") :
         \E r \in {DriverCall(Driver(RevertEndpoint), "connect", service.device.mac, proc)} :
           /\ Issue(RevertEndpoint, "connect", proc, r)
           /\ IF r.tag = "raise" THEN Exits(logs, r.exc) ELSE Returns(logs)
    /\ UNCHANGED <<hostname, config, argTarget, argDevice, service, probe, ror, ts, world, duo, tui>>

\* variant: the remote disconnect of the pull is not protected
PullCatchesNothing(e) == FALSE

\* the except clause of _handle_pull
PullCatches(e) == e.type = "ExecutionError"

\* _handle_pull: the remote disconnect
PullDisconnect ==
    /\ pc = "pull_disconnect"
    /\ \E proc \in ProcChoices(connected, "remote", "disconnect") :
         \E r \in {DriverCall(Driver("remote"), "disconnect", service.device.mac, proc)} :
           LET l1 == Append(logs, Log("DEBUG", "Ensuring disconnect on remote..."))
           IN  /\ Issue("remote", "disconnect", proc, r)
               /\ CASE r.tag = "ret" -> Goes("pull_connect", l1)
                    [] r.tag = "raise" /\ PullCatches(r.exc) ->
                         Goes("pull_connect",
                              Append(l1, Log("WARNING", "Could not verify disconnect, proceeding anyway.")))
                    [] OTHER -> Exits(l1, r.exc)
    /\ UNCHANGED <<hostname, config, argTarget, argDevice, service, probe, ror, ts, world, duo, tui>>

\* _handle_pull: the local connect
PullConnect ==
    /\ pc = "pull_connect"
    /\ \E proc \in ProcChoices(connected, "local", "connect") :
         \E r \in {DriverCall(Driver("local"), "connect", service.device.mac, proc)} :
           LET l1 == Append(logs, Log("INFO", "Connecting local..."))
           IN  /\ Issue("local", "connect", proc, r)
               /\ IF r.tag = "raise" THEN Exits(l1, r.exc)
                  ELSE Returns(Append(l1, Log("SUCCESS", "Successfully pulled to local machine")))
    /\ UNCHANGED <<hostname, config, argTarget, argDevice, service, probe, ror, ts, world, duo, tui>>

Next ==
    \/ EntryPoint
    \/ Query
    \/ PushDisconnect
    \/ PushConnect
    \/ Revert
    \/ PullDisconnect
    \/ PullConnect

Spec == Init /\ [][Next]_vars

-----------------------------------------------------------------------------
(* Component harness: one Executor or Driver call on arbitrary inputs *)

\* every way a child process can end, whatever the stacks hold
AllProcs ==
    UNION {ProcChoices(c, "local", op) :
             c \in [Endpoints -> BOOLEAN], op \in {"is_connected", "connect", "disconnect"}}

ProbeHost ==
    [address |-> "desk", user |-> "me", protocol |-> "ssh", driver_type |-> "bluez"]

ProbeExecutors == {LocalExecutor, SshExecutor(ProbeHost)}

ProbeMac == "AA:BB"

TimeoutOf(op) ==
    CASE op = "is_connected" -> InfoTimeout
      [] op = "connect"      -> ConnectTimeout
      [] op = "disconnect"   -> DisconnectTimeout

InitDriver ==
    /\ pc = "probe"
    /\ hostname = ThisHost
    /\ config = [tag |-> "raise", devices |-> <<>>, hosts |-> <<>>, defaults |-> <<>>]
    /\ argTarget = NoneArg
    /\ argDevice = NoneArg
    /\ service = NoService
    /\ connected = [e \in Endpoints |-> FALSE]
    /\ calls = <<>>
    /\ cmds = <<>>
    /\ logs = <<>>
    /\ exitCode = 0
    /\ raised = NoExc
    /\ probe = NoProbe
    /\ ror = NoRor
    /\ ts = NoTs
    /\ world = <<>>
    /\ duo = NoDuo
    /\ tui = NoTui

ProbeFrame ==
    UNCHANGED <<pc, hostname, config, argTarget, argDevice, service, connected,
                calls, cmds, logs, exitCode, raised, ror, ts, world, duo, tui>>

\* Executor.run on the command of op
ProbeRun ==
    /\ pc = "probe"
    /\ \E ex \in ProbeExecutors, proc \in AllProcs,
          op \in {"is_connected", "connect", "disconnect"} :
         probe' = Probe("run:" \o op, ex, proc,
                        ExecutorRun(ex, BluezCmd(op, ProbeMac), TimeoutOf(op), proc))
    /\ ProbeFrame

\* Driver.is_connected
ProbeIsConnected ==
    /\ pc = "probe"
    /\ \E ex \in ProbeExecutors, proc \in AllProcs :
         probe' = Probe("is_connected", ex, proc, BluezIsConnected(ex, ProbeMac, proc))
    /\ ProbeFrame

\* Driver.connect
ProbeConnect ==
    /\ pc = "probe"
    /\ \E ex \in ProbeExecutors, proc \in AllProcs :
         probe' = Probe("connect", ex, proc, BluezConnect(ex, ProbeMac, proc))
    /\ ProbeFrame

\* Driver.disconnect
ProbeDisconnect ==
    /\ pc = "probe"
    /\ \E ex \in ProbeExecutors, proc \in AllProcs :
         probe' = Probe("disconnect", ex, proc, BluezDisconnect(ex, ProbeMac, proc))
    /\ ProbeFrame

\* the harness record of one DriverFactory.create call
ProbeOfCreate(host_config, is_local, r) ==
    [op |-> "create", host |-> host_config, is_local |-> is_local, res |-> r]

\* DriverFactory.create
ProbeCreate ==
    /\ pc = "probe"
    /\ \E h \in HostSet \cup {LocalHostCfg}, is_local \in BOOLEAN :
         probe' = ProbeOfCreate(h, is_local, DriverFactoryCreate(h, is_local))
    /\ ProbeFrame

NextDriver ==
    \/ ProbeCreate
    \/ ProbeRun
    \/ ProbeIsConnected
    \/ ProbeConnect
    \/ ProbeDisconnect

SpecDriver == InitDriver /\ [][NextDriver]_vars

-----------------------------------------------------------------------------
(* Vocabulary of the properties *)

CallsOf(ep, op) == {i \in DOMAIN calls : calls[i].ep = ep /\ calls[i].op = op}

\* the run's first Driver operation was the local status query and it returned b
QueryReturned(b) ==
    /\ Len(calls) >= 1
    /\ calls[1].ep = "local" /\ calls[1].op = "is_connected"
    /\ calls[1].res.tag = "ret"
    /\ calls[1].res.val = b

RaisedExecutionError(c) == c.res.tag = "raise" /\ c.res.exc.type = "ExecutionError"

\* the order of the Driver operations issued so far
CallOrder == [i \in DOMAIN calls |-> <<calls[i].ep, calls[i].op>>]

LogLevels == {logs[i].level : i \in DOMAIN logs}

\* the run ended by reporting a failure to the user
ReportedFailure ==
    /\ pc = "done"
    /\ exitCode # 0
    /\ logs # <<>>
    /\ logs[Len(logs)].level \in {"ERROR", "EXCEPTION"}

\* the tool's stderr says the device is not available at the endpoint
IndicatesNotAvailable(proc) ==
    /\ proc.kind = "nonzero"
    /\ proc.stderr \in Padded(ErrNotAvailable) \cup Padded(ErrNotAvailableCaps)

\* t is s without its leading and trailing whitespace
IsTrimOf(t, s) ==
    /\ t = <<>> \/ (t[1] \notin Whitespace /\ t[Len(t)] \notin Whitespace)
    /\ \E i \in 0..(Len(s) - Len(t)) :
         /\ SubSeq(s, i + 1, i + Len(t)) = t
         /\ \A j \in (1..i) \cup ((i + Len(t) + 1)..Len(s)) : s[j] \in Whitespace

DriverOps == {"is_connected", "connect", "disconnect"}

RunOps == {"run:" \o op : op \in DriverOps}

-----------------------------------------------------------------------------
(* Properties *)

\* C1: when the status query returned true and the remote connect raised an
\* ExecutionError, the finished run has issued exactly one local connect and
\* has reported failure with a non-zero exit status, whatever the outcome of
\* that local connect.
C1_PushFailureIsReported ==
    (/\ pc = "done"
     /\ QueryReturned(TRUE)
     /\ \E i \in CallsOf("remote", "connect") : RaisedExecutionError(calls[i]))
    => (/\ Cardinality(CallsOf("local", "connect")) = 1
        /\ exitCode # 0)

\* C2: when the status query returned true and the remote connect returned,
\* the run is over, its Driver operations are exactly local is_connected,
\* local disconnect, remote connect in this order (so no local connect), the
\* device is disconnected locally and connected remotely, and the exit status
\* is 0 with no error record.
C2_PushSuccess ==
    (/\ QueryReturned(TRUE)
     /\ \E i \in CallsOf("remote", "connect") : calls[i].res.tag = "ret")
    => (/\ CallOrder = << <<"local", "is_connected">>, <<"local", "disconnect">>,
                          <<"remote", "connect">> >>
        /\ ~connected["local"]
        /\ connected["remote"]
        /\ pc = "done"
        /\ exitCode = 0
        /\ raised = NoExc
        /\ LogLevels \cap {"ERROR", "EXCEPTION"} = {})

C2_Witness ==
    /\ pc = "done"
    /\ QueryReturned(TRUE)
    /\ \E i \in CallsOf("remote", "connect") : calls[i].res.tag = "ret"

\* C3: when the status query returned false and the remote disconnect command
\* failed (non-zero exit with any diagnostic, "not available" included, or
\* timeout), the local connect is still issued, exactly once by the end of
\* the run, and if it returned the exit status is 0.
C3_PullProceedsAfterRemoteFailure ==
    (/\ QueryReturned(FALSE)
     /\ \E i \in CallsOf("remote", "disconnect") :
            calls[i].proc.kind \in {"nonzero", "timeout"})
    => (/\ pc \in {"pull_connect", "done"}
        /\ pc = "done" =>
             /\ Cardinality(CallsOf("local", "connect")) = 1
             /\ \A j \in CallsOf("local", "connect") :
                  calls[j].res.tag = "ret" => (exitCode = 0 /\ raised = NoExc))

C3_Witness ==
    /\ pc = "done"
    /\ QueryReturned(FALSE)
    /\ \E i \in CallsOf("remote", "disconnect") : IndicatesNotAvailable(calls[i].proc)
    /\ \E j \in CallsOf("local", "connect") : calls[j].res.tag = "ret"
    /\ exitCode = 0

\* C4: when the status query returned false and the local connect raised,
\* that connect is the last Driver operation and the last command of the run,
\* and the run has reported failure with a non-zero exit status.
C4_PullFailureIsFinal ==
    \A i \in CallsOf("local", "connect") :
        (QueryReturned(FALSE) /\ calls[i].res.tag = "raise")
        => (/\ i = Len(calls)
            /\ Len(cmds) = Len(calls)
            /\ ReportedFailure)

C4_Witness ==
    /\ QueryReturned(FALSE)
    /\ \E i \in CallsOf("local", "connect") : RaisedExecutionError(calls[i])
    /\ \E j \in CallsOf("remote", "disconnect") : calls[j].res.tag = "ret"

\* C5: whenever the command of the status query fails (non-zero exit, timeout
\* or executable not found), is_connected returns false, nothing is raised,
\* and the controller is on the pull path.
C5_IsConnectedNeverRaises ==
    \A i \in CallsOf("local", "is_connected") :
        calls[i].proc.kind # "exit0"
        => (/\ calls[i].res.tag = "ret"
            /\ calls[i].res.val = FALSE
            /\ raised = NoExc \/ Len(calls) > 1
            /\ Len(calls) = 1 => pc = "pull_disconnect")

\* C6: a disconnect whose command fails with a "not available" diagnostic
\* returns normally, on the local and on the remote executor.
C6_DisconnectIdempotent ==
    (probe.op = "disconnect" /\ IndicatesNotAvailable(probe.proc))
    => (probe.res.tag = "ret" /\ probe.res.exc = NoExc)

C6_Witness ==
    /\ probe.op = "disconnect"
    /\ probe.executor.kind = "ssh"
    /\ probe.proc.kind = "nonzero"
    /\ probe.proc.stderr = ErrNotAvailableCaps
    /\ probe.res.tag = "ret"

\* C7: a disconnect whose command fails in any other way (non-zero exit with
\* another diagnostic, timeout) raises an ExecutionError, and a connect
\* raises an ExecutionError for every failed command, "not available" included.
C7_OnlyNotAvailableAbsorbed ==
    /\ (/\ probe.op = "disconnect"
        /\ probe.proc.kind \in {"nonzero", "timeout"}
        /\ ~IndicatesNotAvailable(probe.proc))
       => RaisedExecutionError(probe)
    /\ (probe.op = "connect" /\ probe.proc.kind \in {"nonzero", "timeout"})
       => RaisedExecutionError(probe)

C7_Witness ==
    /\ probe.op = "disconnect"
    /\ probe.proc.kind = "nonzero"
    /\ probe.proc.stderr = ErrUnavailable
    /\ RaisedExecutionError(probe)

\* C8: when both aliases resolve and the target host's address is the local
\* hostname, no Driver operation and no command is ever issued, and the
\* finished run has recorded a warning and exits with status 0 and no error.
C8_SelfTargetIsNoOp ==
    LET target_alias == OrElse(argTarget, config.defaults[hostname].default_target)
        device_alias == OrElse(argDevice, config.defaults[hostname].default_device)
    IN  (/\ config.tag = "ret"
         /\ hostname \in DOMAIN config.defaults
         /\ target_alias \in DOMAIN config.hosts
         /\ device_alias \in DOMAIN config.devices
         /\ config.hosts[target_alias].address = hostname)
        => (/\ calls = <<>>
            /\ cmds = <<>>
            /\ pc = "done" =>
                 /\ exitCode = 0
                 /\ raised = NoExc
                 /\ "WARNING" \in LogLevels
                 /\ LogLevels \cap {"ERROR", "EXCEPTION"} = {})

C8_Witness ==
    /\ pc = "done"
    /\ config.tag = "ret"
    /\ hostname \in DOMAIN config.defaults
    /\ argTarget = "desk"
    /\ "desk" \in DOMAIN config.hosts
    /\ config.hosts["desk"].address = hostname
    /\ config.hosts["desk"].protocol = "local"
    /\ "WARNING" \in LogLevels
    /\ exitCode = 0

\* C9: Executor.run returns the trimmed stdout when the command exits with
\* status 0, and raises an ExecutionError carrying the attempted argument
\* vector on non-zero exit, on timeout and when the executable is not found.
C9_ExecutorContract ==
    probe.op \in RunOps =>
        IF probe.proc.kind = "exit0"
        THEN probe.res.tag = "ret" /\ IsTrimOf(probe.res.val, probe.proc.stdout)
        ELSE /\ RaisedExecutionError(probe)
             /\ \E op \in DriverOps :
                  /\ probe.op = "run:" \o op
                  /\ probe.res.exc.cmd = Argv(probe.executor, BluezCmd(op, ProbeMac))

\* C10: a finished run that raised nothing exits with status 0, and one in
\* which an ExecutionError or ConfigurationError reached entry_point exits
\* with a non-zero status after an ERROR record as its last record; every
\* failure of the setup (configuration, aliases, DriverFactory.create) does
\* reach entry_point.
C10_ExitBehaviour ==
    pc = "done" =>
        /\ raised = NoExc => exitCode = 0
        /\ raised.type \in {"ExecutionError", "ConfigurationError"} =>
             /\ exitCode # 0
             /\ logs # <<>>
             /\ logs[Len(logs)] = Log("ERROR", raised.msg)
        /\ calls = <<>> /\ "WARNING" \notin LogLevels =>
             raised.type = "ConfigurationError"
        /\ (calls # <<>> /\ RaisedExecutionError(calls[Len(calls)])
              /\ <<calls[Len(calls)].ep, calls[Len(calls)].op>> # <<"remote", "connect">>)
             => raised = calls[Len(calls)].res.exc

C10_Witness ==
    /\ pc = "done"
    /\ raised.type = "ExecutionError"
    /\ exitCode = 1
    /\ calls[Len(calls)].op = "disconnect"

\* C11: every Driver call runs exactly one command, no Driver operation is
\* issued twice (so the local connect is the pull's connect or the push's
\* revert, never both), only the five operations of the service occur, and a
\* push run issues at most 4 commands, a pull run at most 3.
C11_NoRetries ==
    /\ Len(cmds) = Len(calls)
    /\ \A i \in DOMAIN calls :
         /\ cmds[i] = Argv(Driver(calls[i].ep).executor,
                           BluezCmd(calls[i].op, service.device.mac))
         /\ <<calls[i].ep, calls[i].op>> \in
              {<<"local", "is_connected">>, <<"local", "disconnect">>,
               <<"remote", "connect">>, <<"remote", "disconnect">>,
               <<"local", "connect">>}
    /\ \A ep \in Endpoints, op \in DriverOps : Cardinality(CallsOf(ep, op)) <= 1
    /\ QueryReturned(TRUE) => Len(cmds) <= 4
    /\ QueryReturned(FALSE) => Len(cmds) <= 3

C11_Witness ==
    /\ pc = "done"
    /\ QueryReturned(TRUE)
    /\ Len(cmds) = 4
    /\ calls[3].proc.kind = "timeout"
    /\ calls[4].proc.kind = "nonzero"

\* C12: DriverFactory.create returns a BlueZ driver exactly when the stack
\* is bluez and the call is local or the channel is ssh - over the local
\* executor when local, over the ssh executor of that host otherwise - and
\* raises a ConfigurationError for every other combination.
C12_FactoryTable ==
    probe.op = "create" =>
        IF probe.host.driver_type = "bluez"
           /\ (probe.is_local \/ probe.host.protocol = "ssh")
        THEN /\ probe.res.tag = "ret"
             /\ probe.res.val.type = "bluez"
             /\ probe.res.val.executor.kind = (IF probe.is_local THEN "local" ELSE "ssh")
             /\ ~probe.is_local => probe.res.val.executor.host = probe.host
        ELSE /\ probe.res.tag = "raise"
             /\ probe.res.exc.type = "ConfigurationError"

C12_Witness ==
    /\ probe.op = "create"
    /\ ~probe.is_local
    /\ probe.host.protocol = "local"
    /\ probe.host.driver_type = "bluez"
    /\ probe.res.tag = "raise"

\* the transitions of a run: Start -> Querying -> Pushing | Pulling ->
\* Reverting | Done/Failed ("done" is both terminal states)
PcEdges ==
    {<<"start", "query">>, <<"start", "done">>,
     <<"query", "push_disconnect">>, <<"query", "pull_disconnect">>, <<"query", "done">>,
     <<"push_disconnect", "push_connect">>, <<"push_disconnect", "done">>,
     <<"push_connect", "revert">>, <<"push_connect", "done">>,
     <<"revert", "done">>,
     <<"pull_disconnect", "pull_connect">>, <<"pull_disconnect", "done">>,
     <<"pull_connect", "done">>}

\* C13: every step of a run is a transition of the state machine; the status
\* query is the first Driver operation and the only one issued in Querying;
\* Pushing is entered exactly when the query returned true and Pulling when
\* it returned false; Reverting is entered only from the push's remote
\* connect, after that connect raised; nothing changes once the run is over;
\* a run of the service that is over has queried exactly once.
C13_StateMachine ==
    [][/\ <<pc, pc'>> \in PcEdges
       /\ pc # "done"
       /\ (Len(calls') > Len(calls)) =>
            /\ Len(calls') = Len(calls) + 1
            /\ (calls'[Len(calls')].op = "is_connected") <=> (pc = "query")
            /\ pc = "query" => calls = <<>>
       /\ pc' = "push_disconnect" =>
            (calls'[1].res.tag = "ret" /\ calls'[1].res.val = TRUE)
       /\ pc' = "pull_disconnect" =>
            (calls'[1].res.tag = "ret" /\ calls'[1].res.val = FALSE)
       /\ pc' = "revert" =>
            /\ pc = "push_connect"
            /\ calls'[Len(calls')].ep = "remote"
            /\ calls'[Len(calls')].op = "connect"
            /\ calls'[Len(calls')].res.tag = "raise"
       /\ pc' = "done" =>
            IF pc = "start" THEN calls' = <<>>
            ELSE Cardinality({i \in DOMAIN calls' : calls'[i].op = "is_connected"}) = 1
      ]_vars

C13_Witness ==
    /\ pc = "revert"
    /\ QueryReturned(TRUE)
    /\ Len(calls) = 3

\* C17: when the remote connect of a push raised an ExecutionError, the
\* exception the finished run reports is that ExecutionError, whether the
\* revert returned or raised.
C17_OriginalFailureReported ==
    \A i \in CallsOf("remote", "connect") :
        (pc = "done" /\ QueryReturned(TRUE) /\ RaisedExecutionError(calls[i]))
        => raised = calls[i].res.exc

\* C18: after a push whose remote connect command failed, the finished run
\* leaves the device connected locally if a revert connect returned and
\* connected nowhere otherwise; it is not connected remotely.
C18_PlacementAfterFailedPush ==
    (/\ pc = "done"
     /\ QueryReturned(TRUE)
     /\ \E i \in CallsOf("remote", "connect") : calls[i].proc.kind # "exit0")
    => (/\ ~connected["remote"]
        /\ connected["local"] <=>
             \E j \in CallsOf("local", "connect") : calls[j].res.tag = "ret")

C18_Witness ==
    /\ pc = "done"
    /\ QueryReturned(TRUE)
    /\ Len(calls) = 4
    /\ calls[3].proc.kind = "nonzero"
    /\ calls[4].proc.kind = "timeout"
    /\ ~connected["local"]
    /\ ~connected["remote"]

\* C19: when the local disconnect of a push raised an ExecutionError, the
\* run is over with that exception reported and a non-zero exit status, the
\* disconnect is the last Driver operation (no remote connect, no local
\* connect), and the stacks are as the failed disconnect left them.
C19_PushDisconnectFailurePropagates ==
    \A i \in CallsOf("local", "disconnect") :
        (QueryReturned(TRUE) /\ RaisedExecutionError(calls[i]))
        => (/\ i = Len(calls)
            /\ CallsOf("remote", "connect") = {}
            /\ CallsOf("local", "connect") = {}
            /\ ReportedFailure
            /\ raised = calls[i].res.exc
            /\ connected["local"]
            /\ ~connected["remote"])

C19_Witness ==
    /\ QueryReturned(TRUE)
    /\ Len(calls) = 2
    /\ calls[2].proc.kind = "nonzero"
    /\ calls[2].proc.stderr = ErrUnavailable
    /\ exitCode = 1

\* C20: the commands run one after the other: each command has completed
\* when the next is issued; a remote connect directly follows a completed
\* (returned or failed) local disconnect; on the push path a local connect
\* directly follows a failed remote connect; on the pull path a local connect
\* directly follows a completed (returned, failed or timed out) remote
\* disconnect.
C20_Sequential ==
    /\ Len(cmds) = Len(calls)
    /\ \A i \in CallsOf("remote", "connect") :
         /\ i > 1
         /\ <<calls[i - 1].ep, calls[i - 1].op>> = <<"local", "disconnect">>
    /\ \A i \in CallsOf("local", "connect") :
         /\ i > 1
         /\ QueryReturned(TRUE) =>
              /\ <<calls[i - 1].ep, calls[i - 1].op>> = <<"remote", "connect">>
              /\ calls[i - 1].res.tag = "raise"
         /\ QueryReturned(FALSE) =>
              <<calls[i - 1].ep, calls[i - 1].op>> = <<"remote", "disconnect">>

C20_Witness ==
    /\ QueryReturned(FALSE)
    /\ Len(calls) = 3
    /\ calls[2].proc.kind = "timeout"
    /\ calls[3].op = "connect"

-----------------------------------------------------------------------------
(* run_or_raise.py *)

\* longest generated single extra argument
MaxArgLen == 3

\* most extra arguments after the launch id
MaxExtra == 3

ClassFlag == <<"-", "-", "c", "l", "a", "s", "s">>

ArgScript == <<"s", "c", "r", "i", "p", "t">>

ArgFirefox == <<"f", "i", "r", "e", "f", "o", "x">>

ArgNameFlag == <<"-", "-", "n", "a", "m", "e">>

ArgMyApp == <<"M", "y", " ", "A", "p", "p">>

ArgQuotedPair ==
    <<"-", "-", "n", "a", "m", "e", " ", "'", "M", "y", " ", "A", "p", "p", "'">>

ArgDoubleQuotedPair == <<"-", "n", " ", "\"", "a", " ", " ", "b", "\"">>

ArgEscapedSpace == <<"a", "\\", " ", "b">>

ArgUnclosed == <<"-", "-", "n", "a", "m", "e", " ", "'", "M", "y">>

ArgPattern == <<"M", "y", "P", "a", "t", "t", "e", "r", "n">>

OutOneWindow == <<"9", "9", "9", "9", "9">>

OutTwoWindows == <<"1", "2", "3", "4", "5", "\n", "6", "7", "8", "9", "0">>

OutGapWindows ==
    <<"\n", "1", "2", "3", "4", "5", "\n", "\n", "6", "7", "8", "9", "0", "\n">>

\* AppConfig(launch_id, search_flag, search_pattern)
RorConfig(launch_id, search_flag, search_pattern) ==
    [launch_id |-> launch_id, search_flag |-> search_flag,
     search_pattern |-> search_pattern]

ShlexWhitespace == {" ", "\t", "\r", "\n"}

ShlexQuotes == {"'", "\""}

RECURSIVE ShlexScan(_, _, _, _, _, _, _)
\* the token scanner of shlex in POSIX mode, from character i of s: state is
\* "ws" between words, "a" inside a word, a quote character inside quotes,
\* "esc" after a backslash (back is the state to return to); tok is the word
\* read so far and has tells whether a word has begun
ShlexScan(s, i, state, back, tok, has, out) ==
    IF i > Len(s)
    THEN IF state \in ShlexQuotes \cup {"esc"}
         THEN [ok |-> FALSE, parts |-> <<>>]
         ELSE [ok |-> TRUE, parts |-> IF has THEN Append(out, tok) ELSE out]
    ELSE
      LET c == s[i]
      IN  CASE state = "ws" ->
                 IF c \in ShlexWhitespace
                 THEN ShlexScan(s, i + 1, "ws", back, <<>>, FALSE, out)
                 ELSE IF c = "\\" THEN ShlexScan(s, i + 1, "esc", "a", <<>>, TRUE, out)
                 ELSE IF c \in ShlexQuotes THEN ShlexScan(s, i + 1, c, back, <<>>, TRUE, out)
                 ELSE ShlexScan(s, i + 1, "a", back, <<c>>, TRUE, out)
            [] state = "a" ->
                 IF c \in ShlexWhitespace
                 THEN ShlexScan(s, i + 1, "ws", back, <<>>, FALSE, Append(out, tok))
                 ELSE IF c = "\\" THEN ShlexScan(s, i + 1, "esc", "a", tok, TRUE, out)
                 ELSE IF c \in ShlexQuotes THEN ShlexScan(s, i + 1, c, back, tok, TRUE, out)
                 ELSE ShlexScan(s, i + 1, "a", back, Append(tok, c), TRUE, out)
            [] state = "'" ->
                 IF c = "'" THEN ShlexScan(s, i + 1, "a", back, tok, TRUE, out)
                 ELSE ShlexScan(s, i + 1, "'", back, Append(tok, c), TRUE, out)
            [] state = "\"" ->
                 IF c = "\"" THEN ShlexScan(s, i + 1, "a", back, tok, TRUE, out)
                 ELSE IF c = "\\" THEN ShlexScan(s, i + 1, "esc", "\"", tok, TRUE, out)
                 ELSE ShlexScan(s, i + 1, "\"", back, Append(tok, c), TRUE, out)
            [] state = "esc" ->
                 IF back = "\"" /\ c # "\"" /\ c # "\\"
                 THEN ShlexScan(s, i + 1, back, back, tok \o <<"\\", c>>, TRUE, out)
                 ELSE ShlexScan(s, i + 1, back, back, Append(tok, c), TRUE, out)

\* shlex.split(s): the words, or ok = FALSE for ValueError
ShlexSplit(s) == ShlexScan(s, 1, "ws", "a", <<>>, FALSE, <<>>)

RECURSIVE SplitWords(_, _, _, _)
\* str.split() without arguments, from character i of s
SplitWords(s, i, tok, out) ==
    IF i > Len(s) THEN (IF tok = <<>> THEN out ELSE Append(out, tok))
    ELSE IF s[i] \in Whitespace
         THEN SplitWords(s, i + 1, <<>>, IF tok = <<>> THEN out ELSE Append(out, tok))
         ELSE SplitWords(s, i + 1, Append(tok, s[i]), out)

RECURSIVE JoinSpace(_)
\* " ".join(words)
JoinSpace(words) ==
    IF Len(words) = 0 THEN <<>>
    ELSE IF Len(words) = 1 THEN words[1]
    ELSE words[1] \o <<" ">> \o JoinSpace(Tail(words))

\* s.startswith("-")
StartsWithDash(s) == Len(s) >= 1 /\ s[1] = "-"

\* variant: a single extra argument is taken as one word, never split
SingleArgNotSplit(single_arg) == <<single_arg>>

\* parse_args: the words of a single extra argument
SingleArgParts(single_arg) ==
    LET r == ShlexSplit(single_arg)
    IN  IF r.ok THEN r.parts ELSE SplitWords(single_arg, 1, <<>>, <<>>)

\* parse_args on an argument vector with a launch id
ParseArgs(argv) ==
    LET launch_id  == argv[2]
        extra_args == SubSeq(argv, 3, Len(argv))
    IN  CASE Len(extra_args) = 0 -> RorConfig(launch_id, ClassFlag, launch_id)
          [] Len(extra_args) >= 2 ->
               RorConfig(launch_id, extra_args[1], JoinSpace(Tail(extra_args)))
          [] OTHER ->
               LET single_arg == extra_args[1]
                   parts      == SingleArgParts(single_arg)
               IN  CASE Len(parts) >= 2 ->
                          RorConfig(launch_id, parts[1], JoinSpace(Tail(parts)))
                     [] Len(parts) = 1 /\ StartsWithDash(parts[1]) ->
                          RorConfig(launch_id, parts[1], launch_id)
                     [] Len(parts) = 1 ->
                          RorConfig(launch_id, ClassFlag, parts[1])
                     [] OTHER ->
                          RorConfig(launch_id, ClassFlag, single_arg)

RECURSIVE SplitLines(_, _, _, _)
\* str.splitlines(), from character i of s (the tools end lines with "\n")
SplitLines(s, i, line, out) ==
    IF i > Len(s) THEN (IF line = <<>> THEN out ELSE Append(out, line))
    ELSE IF s[i] = "\n" THEN SplitLines(s, i + 1, <<>>, Append(out, line))
         ELSE SplitLines(s, i + 1, Append(line, s[i]), out)

\* WindowManager.find_windows on the stdout of kdotool search
FindWindows(stdout) == SplitLines(Strip(stdout), 1, <<>>, <<>>)

\* variant: main activates the last window found
PickLast(window_ids) == window_ids[Len(window_ids)]

\* main: the window it activates, window_ids[0]
PickWindow(window_ids) == window_ids[1]

RorEvent(kind, args) == [kind |-> kind, args |-> args]

\* generated arguments: every text of at most MaxArgLen of these characters
ArgChars == {"a", "-", " ", "'"}

ShortArgs == UNION {[1..k -> ArgChars] : k \in 0..MaxArgLen}

SampleArgs ==
    {ClassFlag, ArgPattern, ArgQuotedPair, ArgDoubleQuotedPair, ArgEscapedSpace,
     ArgUnclosed, ArgNameFlag, ArgMyApp}

\* the words a shell passes when it has split the extra arguments itself
ExtraWords == {ArgNameFlag, ArgMyApp, <<"a">>, <<>>}

\* sys.argv
ArgvSet ==
    {<<ArgScript>>, <<ArgScript, ArgFirefox>>}
    \cup {<<ArgScript, ArgFirefox, a>> : a \in ShortArgs \cup SampleArgs}
    \cup UNION {{<<ArgScript, ArgFirefox>> \o e : e \in [1..k -> ExtraWords]} :
                  k \in 2..MaxExtra}

\* what kdotool search prints
SearchOutputs ==
    {<<>>, <<"\n">>, <<" ", "\n">>, OutOneWindow, OutTwoWindows, OutGapWindows}

InitRor ==
    /\ pc = "ror"
    /\ hostname = ThisHost
    /\ config = [tag |-> "raise", devices |-> <<>>, hosts |-> <<>>, defaults |-> <<>>]
    /\ argTarget = NoneArg
    /\ argDevice = NoneArg
    /\ service = NoService
    /\ connected = [e \in Endpoints |-> FALSE]
    /\ calls = <<>>
    /\ cmds = <<>>
    /\ logs = <<>>
    /\ exitCode = 0
    /\ raised = NoExc
    /\ probe = NoProbe
    /\ ts = NoTs
    /\ world = <<>>
    /\ duo = NoDuo
    /\ tui = NoTui
    /\ \E argv \in ArgvSet : ror = [NoRor EXCEPT !.pc = "start", !.argv = argv]

RorFrame ==
    UNCHANGED <<pc, hostname, config, argTarget, argDevice, service, connected,
                calls, cmds, logs, exitCode, raised, probe, ts, world, duo, tui>>

\* main: parse_args(sys.argv)
RorParseArgs ==
    /\ ror.pc = "start"
    /\ IF Len(ror.argv) < 2
       THEN ror' = [ror EXCEPT !.pc = "done", !.exit = 1]
       ELSE ror' = [ror EXCEPT !.pc = "find", !.config = ParseArgs(ror.argv)]
    /\ RorFrame

\* main: manager.find_windows(config.search_flag, config.search_pattern)
RorFindWindows ==
    /\ ror.pc = "find"
    /\ LET ev == RorEvent("search", <<ror.config.search_flag, ror.config.search_pattern>>)
       IN  \/ \E out \in SearchOutputs :
                ror' = [ror EXCEPT !.pc = "act", !.found = "ret",
                                   !.window_ids = FindWindows(out),
                                   !.events = Append(@, ev)]
           \/ ror' = [ror EXCEPT !.pc = "done", !.found = "enoent", !.exit = 1,
                                 !.events = Append(@, ev)]
    /\ RorFrame

\* main: manager.activate_window(window_ids[0])
RorActivate ==
    /\ ror.pc = "act"
    /\ ror.window_ids # <<>>
    /\ LET window_id == PickWindow(ror.window_ids)
       IN  IF window_id = <<>>
           THEN ror' = [ror EXCEPT !.pc = "done"]
           ELSE ror' = [ror EXCEPT !.pc = "done",
                                   !.events = Append(@, RorEvent("activate", <<window_id>>))]
    /\ RorFrame

\* main: manager.launch_application(config.launch_id); kstart may be missing
RorLaunch ==
    /\ ror.pc = "act"
    /\ ror.window_ids = <<>>
    /\ \E found \in BOOLEAN :
         ror' = [ror EXCEPT !.pc = "done",
                            !.exit = IF found THEN 0 ELSE 1,
                            !.events = Append(@, RorEvent("launch", <<ror.config.launch_id>>))]
    /\ RorFrame

NextRor ==
    \/ RorParseArgs
    \/ RorFindWindows
    \/ RorActivate
    \/ RorLaunch

SpecRor == InitRor /\ [][NextRor]_vars

-----------------------------------------------------------------------------
(* run_or_raise.py: properties *)

RorParsed == ror.pc \in {"find", "act"} \/ (ror.pc = "done" /\ Len(ror.argv) >= 2)

RorLaunchId == ror.argv[2]

RorExtra == SubSeq(ror.argv, 3, Len(ror.argv))

RorCount(kind) == Cardinality({i \in DOMAIN ror.events : ror.events[i].kind = kind})

RorFinished == ror.pc = "done"

RorSearchEvent == RorEvent("search", <<ror.config.search_flag, ror.config.search_pattern>>)

\* a word that shell splitting leaves as it is
IsPlainWord(s) ==
    /\ s # <<>>
    /\ \A i \in DOMAIN s : s[i] \notin ShlexWhitespace \cup ShlexQuotes \cup {"\\"}

\* C14 as stated: in every finished run the search was issued exactly once and
\* exactly one of activate and launch happened. A run without a launch id and
\* a run that cannot start kdotool end with neither.
C14_EveryRunActsOnce ==
    RorFinished =>
        /\ RorCount("search") = 1
        /\ RorCount("activate") + RorCount("launch") = 1

\* C14 (amended): a finished run that had a launch id and whose window search
\* returned issued the search exactly once and then did exactly one thing: it
\* activated the first id returned and launched nothing when the search
\* returned an id, and it started the launch of the application exactly once
\* and activated nothing when the search returned none. A run without a launch
\* id, or whose search could not start kdotool, exits with status 1 having
\* neither activated nor launched.
C14_Workflow ==
    RorFinished =>
        /\ (Len(ror.argv) >= 2 /\ ror.found = "ret" /\ ror.window_ids # <<>>) =>
              ror.events = <<RorSearchEvent, RorEvent("activate", <<ror.window_ids[1]>>)>>
        /\ (Len(ror.argv) >= 2 /\ ror.found = "ret" /\ ror.window_ids = <<>>) =>
              ror.events = <<RorSearchEvent, RorEvent("launch", <<RorLaunchId>>)>>
        /\ (Len(ror.argv) < 2 \/ ror.found = "enoent") =>
              /\ ror.exit = 1
              /\ RorCount("activate") + RorCount("launch") = 0

\* a run whose search returned two windows and that activated one
C14_Witness ==
    /\ RorFinished
    /\ Len(ror.window_ids) = 2
    /\ ror.window_ids[1] # ror.window_ids[2]
    /\ RorCount("activate") = 1

\* C15: parse_args on an argument vector with a launch id: no extra argument
\* gives (id, "--class", id); two or more give (id, first, rest joined by
\* spaces); a single word starting with "-" gives (id, word, id) and any other
\* single word (id, "--class", word); a single argument that shell-splits into
\* a flag and a pattern gives what the split words give as separate arguments.
C15_ParseArgs ==
    RorParsed =>
        LET id    == RorLaunchId
            extra == RorExtra
            n     == Len(extra)
        IN  /\ ror.config.launch_id = id
            /\ n = 0 => ror.config = RorConfig(id, ClassFlag, id)
            /\ n >= 2 => ror.config = RorConfig(id, extra[1], JoinSpace(Tail(extra)))
            /\ (n = 1 /\ IsPlainWord(extra[1]) /\ extra[1][1] = "-") =>
                  ror.config = RorConfig(id, extra[1], id)
            /\ (n = 1 /\ IsPlainWord(extra[1]) /\ extra[1][1] # "-") =>
                  ror.config = RorConfig(id, ClassFlag, extra[1])
            /\ (n = 1 /\ ShlexSplit(extra[1]).ok /\ Len(ShlexSplit(extra[1]).parts) >= 2) =>
                  LET parts == ShlexSplit(extra[1]).parts
                  IN  ror.config = RorConfig(id, parts[1], JoinSpace(Tail(parts)))
            /\ extra = <<ArgQuotedPair>> =>
                  ror.config = RorConfig(id, ArgNameFlag, ArgMyApp)

\* the single quoted argument "--name 'My App'" parsed into flag and pattern
C15_Witness ==
    /\ ror.pc = "find"
    /\ RorExtra = <<ArgQuotedPair>>
    /\ ror.config.search_flag = ArgNameFlag
    /\ ror.config.search_pattern = ArgMyApp

-----------------------------------------------------------------------------
(* ts_exit.py *)

\* most runs of toggle in a behaviour
MaxToggles == 3

\* the exit nodes of the tailnet
ExitNodes == {"node1", "node2"}

\* target: an exit node, the empty text, or None when neither the command
\* line nor DEFAULT_EXIT_NODE gives one
TsTargets == ExitNodes \cup {"", NoneArg}

\* the mode of the machine: does it advertise as an exit node, does it use one
TsMode(advertise, exit_node) == [advertising |-> advertise, using |-> exit_node # ""]

\* tailscale set --exit-node=<value>
ExitNodeCmd(value) == [flag |-> "--exit-node", value |-> value]

\* tailscale set --advertise-exit-node=<value>
AdvertiseCmd(value) == [flag |-> "--advertise-exit-node", value |-> value]

\* variant: connects to the target before it stops advertising
TogglePlanConnectFirst(current_exit_node, target) ==
    IF current_exit_node # ""
    THEN <<ExitNodeCmd(""), AdvertiseCmd("true")>>
    ELSE <<ExitNodeCmd(target), AdvertiseCmd("false")>>

\* toggle: the two commands it runs, given prefs["ExitNodeID"] and a target
TogglePlan(current_exit_node, target) ==
    IF current_exit_node # ""
    THEN <<ExitNodeCmd(""), AdvertiseCmd("true")>>
    ELSE <<AdvertiseCmd("false"), ExitNodeCmd(target)>>

\* what a successful tailscale set does to the preferences
TsApply(t, cmd) ==
    IF cmd.flag = "--exit-node"
    THEN [t EXCEPT !.exit_node = cmd.value]
    ELSE [t EXCEPT !.advertise = (cmd.value = "true")]

\* the record of a finished run of toggle
TsRun(t, outcome) ==
    [target |-> t.target, before |-> t.before,
     after |-> TsMode(t.advertise, t.exit_node), cmds |-> t.cmds, outcome |-> outcome]

\* the run ends: sys.exit(1) from run_cmd, or toggle returns
TsEnd(t, outcome) ==
    [t EXCEPT !.pc = "idle", !.exit = IF outcome = "failed" THEN 1 ELSE 0,
              !.log = Append(@, TsRun(t, outcome))]

InitTs ==
    /\ pc = "ts"
    /\ hostname = ThisHost
    /\ config = [tag |-> "raise", devices |-> <<>>, hosts |-> <<>>, defaults |-> <<>>]
    /\ argTarget = NoneArg
    /\ argDevice = NoneArg
    /\ service = NoService
    /\ connected = [e \in Endpoints |-> FALSE]
    /\ calls = <<>>
    /\ cmds = <<>>
    /\ logs = <<>>
    /\ exitCode = 0
    /\ raised = NoExc
    /\ probe = NoProbe
    /\ ror = NoRor
    /\ world = <<>>
    /\ duo = NoDuo
    /\ tui = NoTui
    /\ \E advertise \in BOOLEAN, exit_node \in ExitNodes \cup {""} :
         ts = [NoTs EXCEPT !.advertise = advertise, !.exit_node = exit_node]

TsFrame ==
    UNCHANGED <<pc, hostname, config, argTarget, argDevice, service, connected,
                calls, cmds, logs, exitCode, raised, probe, ror, world, duo, tui>>

\* the script is started with a target
TsStart ==
    /\ ts.pc = "idle"
    /\ Len(ts.log) < MaxToggles
    /\ \E target \in TsTargets :
         ts' = [ts EXCEPT !.pc = "prefs", !.target = target, !.cmds = <<>>,
                          !.exit = 0, !.current = "",
                          !.before = TsMode(ts.advertise, ts.exit_node)]
    /\ TsFrame

\* toggle: prefs = get_prefs(); the branch on current_exit_node and target
TsGetPrefs ==
    /\ ts.pc = "prefs"
    /\ \/ ts' = TsEnd(ts, "failed")
       \/ LET t == [ts EXCEPT !.current = ts.exit_node]
          IN  IF t.current = "" /\ t.target = NoneArg
              THEN ts' = TsEnd(t, "noop")
              ELSE ts' = [t EXCEPT !.pc = "first"]
    /\ TsFrame

\* variant: a failure of the first command does not stop the toggle
TsRunFirstContinues ==
    /\ ts.pc = "first"
    /\ LET cmd == TogglePlan(ts.current, ts.target)[1]
           t   == [ts EXCEPT !.cmds = Append(@, cmd)]
       IN  \/ ts' = [TsApply(t, cmd) EXCEPT !.pc = "second"]
           \/ ts' = [t EXCEPT !.pc = "second"]
    /\ TsFrame

\* toggle: the first run_cmd of the branch taken
TsRunFirst ==
    /\ ts.pc = "first"
    /\ LET cmd == TogglePlan(ts.current, ts.target)[1]
           t   == [ts EXCEPT !.cmds = Append(@, cmd)]
       IN  \/ ts' = [TsApply(t, cmd) EXCEPT !.pc = "second"]
           \/ ts' = TsEnd(t, "failed")
    /\ TsFrame

\* toggle: the second run_cmd of the branch taken
TsRunSecond ==
    /\ ts.pc = "second"
    /\ LET cmd == TogglePlan(ts.current, ts.target)[2]
           t   == [ts EXCEPT !.cmds = Append(@, cmd)]
       IN  \/ ts' = TsEnd(TsApply(t, cmd), "toggled")
           \/ ts' = TsEnd(t, "failed")
    /\ TsFrame

NextTs ==
    \/ TsStart
    \/ TsGetPrefs
    \/ TsRunFirst
    \/ TsRunSecond

SpecTs == InitTs /\ [][NextTs]_vars

-----------------------------------------------------------------------------
(* ts_exit.py: properties *)

\* the runs in which toggle ran both of its commands and both succeeded
TsToggled == {i \in DOMAIN ts.log : ts.log[i].outcome = "toggled"}

\* pairs of successive runs that both toggled
TsSuccessive == {i \in TsToggled : i + 1 \in TsToggled}

TsBoth(mode) == mode.advertising /\ mode.using

ServerMode == [advertising |-> TRUE, using |-> FALSE]

ClientMode == [advertising |-> FALSE, using |-> TRUE]

\* the order of the two commands of every successful toggle
TsOrder ==
    \A i \in TsToggled :
        LET run == ts.log[i]
        IN  IF run.before.using
            THEN run.cmds = <<ExitNodeCmd(""), AdvertiseCmd("true")>>
            ELSE /\ run.target # NoneArg
                 /\ run.cmds = <<AdvertiseCmd("false"), ExitNodeCmd(run.target)>>

\* C16 as stated: every successful toggle runs its two commands in the order
\* given, no successful toggle ends both advertising and using an exit node,
\* and any two successive successful toggles end in the mode the first one
\* started in. The last part fails from a start that neither advertises nor
\* uses an exit node.
C16_TogglesAlternate ==
    /\ TsOrder
    /\ \A i \in TsToggled : ~TsBoth(ts.log[i].after)
    /\ \A i \in TsSuccessive : ts.log[i + 1].after = ts.log[i].before

\* C16 (amended): a successful toggle that finds an exit node set clears it
\* and then enables advertising; one that finds none set and has a target
\* disables advertising and then sets the exit node to the target. Hence
\* between the two commands of a toggle and after every successful toggle the
\* machine is never both advertising and using an exit node, and two
\* successive successful toggles that start in
\* server mode or in client mode, with a non-empty target for the one that
\* connects, end in the mode they started in.
C16_Toggle ==
    /\ TsOrder
    /\ \A i \in TsToggled : ~TsBoth(ts.log[i].after)
    /\ ts.pc = "second" => ~TsBoth(TsMode(ts.advertise, ts.exit_node))
    /\ \A i \in TsSuccessive :
          (/\ ts.log[i].before \in {ServerMode, ClientMode}
           /\ \A k \in {i, i + 1} : ~ts.log[k].before.using => ts.log[k].target # "")
          => ts.log[i + 1].after = ts.log[i].before

\* server mode, a toggle into client mode, and a toggle back into server mode
C16_Witness ==
    /\ Len(ts.log) >= 2
    /\ {1, 2} \subseteq TsToggled
    /\ ts.log[1].before = ServerMode
    /\ ts.log[1].after = ClientMode
    /\ ts.log[2].after = ServerMode

-----------------------------------------------------------------------------
(* bt_switch.py in a world that changes under the run *)

\* most changes made to the stacks from outside during one run
MaxExternal == 1

\* where the device can be: at one endpoint or nowhere
Placements == {c \in [Endpoints -> BOOLEAN] : ~(c["local"] /\ c["remote"])}

\* a user action or an RF drop changes where the device is connected while
\* the run is between two commands; the change is noted with the number of
\* Driver operations issued before it
ExternalChange ==
    /\ pc \notin {"start", "done"}
    /\ Len(world) < MaxExternal
    /\ \E c \in Placements \ {connected} :
         /\ connected' = c
         /\ world' = Append(world, [at |-> Len(calls), conn |-> c])
    /\ UNCHANGED <<pc, hostname, config, argTarget, argDevice, service, calls, cmds,
                   logs, exitCode, raised, probe, ror, ts, duo, tui>>

\* a run with a valid configuration, on the defaults of this host
InitWorld ==
    /\ Init
    /\ config.tag = "ret"
    /\ DOMAIN config.devices # {} /\ DOMAIN config.hosts # {} /\ DOMAIN config.defaults # {}
    /\ argTarget = NoneArg
    /\ argDevice = NoneArg

NextWorld ==
    \/ Next
    \/ ExternalChange

SpecWorld == InitWorld /\ [][NextWorld]_vars

\* the Driver operations of the push (with its revert) and of the pull
PushCalls == <<<<"local", "disconnect">>, <<"remote", "connect">>, <<"local", "connect">>>>

PullCalls == <<<<"remote", "disconnect">>, <<"local", "connect">>>>

\* C21: the status query is the first Driver operation of a run and the only
\* one of its kind, and every later operation is the next one of the branch
\* its answer chose (push for true, pull for false), whatever has happened to
\* the real connection state since.
C21_BranchFromSingleQuery ==
    /\ \A i \in DOMAIN calls : calls[i].op = "is_connected" <=> i = 1
    /\ Len(calls) >= 2 =>
          /\ calls[1].res.tag = "ret"
          /\ LET plan == IF calls[1].res.val THEN PushCalls ELSE PullCalls
             IN  \A i \in 2..Len(calls) :
                    /\ i - 1 <= Len(plan)
                    /\ <<calls[i].ep, calls[i].op>> = plan[i - 1]

\* the query answered true, the device then dropped locally, and the run
\* still disconnected locally and connected remotely
C21_Witness ==
    /\ Len(calls) >= 3
    /\ calls[1].res.tag = "ret"
    /\ calls[1].res.val
    /\ Len(world) = 1
    /\ world[1].at = 1
    /\ ~world[1].conn["local"]
    /\ <<calls[2].ep, calls[2].op>> = <<"local", "disconnect">>
    /\ <<calls[3].ep, calls[3].op>> = <<"remote", "connect">>

-----------------------------------------------------------------------------
(* bt_switch.py invoked twice at the same time on the same machine *)

DuoRuns == {1, 2}

\* the configuration both invocations load
DuoConfig ==
    [tag |-> "ret",
     devices |-> [k \in {"hp"} |-> [mac |-> "AA:BB", name |-> "Headphones"]],
     hosts |-> [k \in {"desk"} |->
                  [address |-> "desk", user |-> "me", protocol |-> "ssh",
                   driver_type |-> "bluez"]],
     defaults |-> [k \in {ThisHost} |->
                     [default_device |-> "hp", default_target |-> "desk"]]]

\* the SwitchService each invocation builds from it
DuoService == EntryPointSetup(DuoConfig, ThisHost, NoneArg, NoneArg).val

DuoDriver(ep) == IF ep = "local" THEN DuoService.local ELSE DuoService.remote

\* one Driver operation of invocation r, as noted in the common order
DuoCall(r, ep, op, proc, res) ==
    [run |-> r, ep |-> ep, op |-> op, exit0 |-> proc.kind = "exit0",
     ok |-> res.tag = "ret", val |-> res.tag = "ret" /\ res.val]

\* the ways a child process can end, each text as the tool prints it bare
DuoProcChoices(conn, ep, op) ==
    {p \in ProcChoices(conn, ep, op) :
        p.stdout = Strip(p.stdout) /\ p.stderr = Strip(p.stderr)}

\* variant: an invocation holds a lock from its query to its end
DuoLocked(r) == \A o \in DuoRuns \ {r} : duo.pc[o] \in {"query", "done"}

\* entry_point and SwitchService take no lock: an invocation may always go on
DuoMayStep(r) == TRUE

\* invocation r issues op on ep; the child process ends as proc, the result
\* is res, the invocation goes to next (with exit status exit when it ends)
DuoIssue(r, ep, op, proc, res, next, exit) ==
    /\ connected' = Effect(connected, ep, op, proc)
    /\ duo' = [duo EXCEPT !.pc[r] = next, !.exit[r] = exit,
                          !.log = Append(@, DuoCall(r, ep, op, proc, res))]

DuoFrame ==
    UNCHANGED <<pc, hostname, config, argTarget, argDevice, service, calls, cmds,
                logs, exitCode, raised, probe, ror, ts, world, tui>>

\* SwitchService.run: the status query and the branch
DuoQuery(r) ==
    /\ duo.pc[r] = "query"
    /\ \E proc \in DuoProcChoices(connected, "local", "is_connected") :
         LET res == DriverCall(DuoDriver("local"), "is_connected", DuoService.device.mac, proc)
         IN  IF res.tag = "raise"
             THEN DuoIssue(r, "local", "is_connected", proc, res, "done", ExitStatus(res.exc))
             ELSE DuoIssue(r, "local", "is_connected", proc, res, Branch(res.val), 0)
    /\ DuoFrame

\* _handle_push: the local disconnect
DuoPushDisconnect(r) ==
    /\ duo.pc[r] = "push_disconnect"
    /\ \E proc \in DuoProcChoices(connected, "local", "disconnect") :
         LET res == DriverCall(DuoDriver("local"), "disconnect", DuoService.device.mac, proc)
         IN  IF res.tag = "raise"
             THEN DuoIssue(r, "local", "disconnect", proc, res, "done", ExitStatus(res.exc))
             ELSE DuoIssue(r, "local", "disconnect", proc, res, "push_connect", 0)
    /\ DuoFrame

\* _handle_push: the remote connect
DuoPushConnect(r) ==
    /\ duo.pc[r] = "push_connect"
    /\ \E proc \in DuoProcChoices(connected, "remote", "connect") :
         LET res == DriverCall(DuoDriver("remote"), "connect", DuoService.device.mac, proc)
         IN  CASE res.tag = "ret" ->
                    DuoIssue(r, "remote", "connect", proc, res, "done", 0)
               [] res.tag = "raise" /\ PushCatches(res.exc) ->
                    DuoIssue(r, "remote", "connect", proc, res, "revert", 0)
               [] OTHER ->
                    DuoIssue(r, "remote", "connect", proc, res, "done", ExitStatus(res.exc))
    /\ DuoFrame

\* _handle_push: the local connect of the except clause
DuoRevert(r) ==
    /\ duo.pc[r] = "revert"
    /\ \E proc \in DuoProcChoices(connected, RevertEndpoint, "connect") :
         LET res == DriverCall(DuoDriver(RevertEndpoint), "connect", DuoService.device.mac, proc)
         IN  IF res.tag = "raise"
             THEN DuoIssue(r, RevertEndpoint, "connect", proc, res, "done", ExitStatus(res.exc))
             ELSE DuoIssue(r, RevertEndpoint, "connect", proc, res, "done", 0)
    /\ DuoFrame

\* _handle_pull: the remote disconnect
DuoPullDisconnect(r) ==
    /\ duo.pc[r] = "pull_disconnect"
    /\ \E proc \in DuoProcChoices(connected, "remote", "disconnect") :
         LET res == DriverCall(DuoDriver("remote"), "disconnect", DuoService.device.mac, proc)
         IN  IF res.tag = "ret" \/ PullCatches(res.exc)
             THEN DuoIssue(r, "remote", "disconnect", proc, res, "pull_connect", 0)
             ELSE DuoIssue(r, "remote", "disconnect", proc, res, "done", ExitStatus(res.exc))
    /\ DuoFrame

\* _handle_pull: the local connect
DuoPullConnect(r) ==
    /\ duo.pc[r] = "pull_connect"
    /\ \E proc \in DuoProcChoices(connected, "local", "connect") :
         LET res == DriverCall(DuoDriver("local"), "connect", DuoService.device.mac, proc)
         IN  IF res.tag = "raise"
             THEN DuoIssue(r, "local", "connect", proc, res, "done", ExitStatus(res.exc))
             ELSE DuoIssue(r, "local", "connect", proc, res, "done", 0)
    /\ DuoFrame

\* the next step of invocation r
DuoStep(r) ==
    \/ DuoQuery(r)
    \/ DuoPushDisconnect(r)
    \/ DuoPushConnect(r)
    \/ DuoRevert(r)
    \/ DuoPullDisconnect(r)
    \/ DuoPullConnect(r)

InitDuo ==
    /\ pc = "duo"
    /\ hostname = ThisHost
    /\ config = DuoConfig
    /\ argTarget = NoneArg
    /\ argDevice = NoneArg
    /\ service = DuoService
    /\ connected \in Placements
    /\ calls = <<>>
    /\ cmds = <<>>
    /\ logs = <<>>
    /\ exitCode = 0
    /\ raised = NoExc
    /\ probe = NoProbe
    /\ ror = NoRor
    /\ ts = NoTs
    /\ world = <<>>
    /\ tui = NoTui
    /\ duo = [pc |-> [r \in DuoRuns |-> "query"], log |-> <<>>,
              exit |-> [r \in DuoRuns |-> 0]]

NextDuo == \E r \in DuoRuns : DuoMayStep(r) /\ DuoStep(r)

SpecDuo == InitDuo /\ [][NextDuo]_vars

\* the Driver operations of invocation r, in the order it issued them
DuoCallsOf(r) == SelectSeq(duo.log, LAMBDA c : c.run = r)

\* invocation r has ended reporting success after a connect at ep that returned
DuoSucceededAt(r, ep) ==
    /\ duo.pc[r] = "done"
    /\ duo.exit[r] = 0
    /\ LET own == DuoCallsOf(r)
       IN  /\ own # <<>>
           /\ own[Len(own)].op = "connect"
           /\ own[Len(own)].ep = ep
           /\ own[Len(own)].ok

\* C22: nothing makes one invocation wait for the other: an invocation that
\* has not ended may always take its next step, whatever the other one is
\* doing, and the operations it issues are those of the branch its own query
\* chose. (The witness is an interleaving with contradictory commands after
\* which a successful run does not have the device where it put it.)
C22_NoLock ==
    \A r \in DuoRuns :
        /\ duo.pc[r] # "done" => DuoMayStep(r)
        /\ LET own == DuoCallsOf(r)
           IN  Len(own) >= 2 =>
                  LET plan == IF own[1].val THEN PushCalls ELSE PullCalls
                  IN  \A i \in 2..Len(own) : <<own[i].ep, own[i].op>> = plan[i - 1]

\* the positions in the common order of the operations of invocation r
DuoPositions(r) == {i \in DOMAIN duo.log : duo.log[i].run = r}

\* the two invocations ran at the same time: each issued its first operation
\* before the other issued its last
DuoOverlap ==
    \A r \in DuoRuns : \A o \in DuoRuns \ {r} :
        \E i \in DuoPositions(r), j \in DuoPositions(o) : i < j

\* both invocations ran at the same time and have ended with success; one
\* connected the device at an endpoint, the other disconnected it there
\* afterwards, and the device is not at the endpoint the first one reported
C22_Witness ==
    \E a \in DuoRuns, ep \in Endpoints :
        /\ \A r \in DuoRuns : duo.pc[r] = "done" /\ duo.exit[r] = 0
        /\ DuoOverlap
        /\ DuoSucceededAt(a, ep)
        /\ ~connected[ep]
        /\ \E i, j \in DOMAIN duo.log :
              /\ i < j
              /\ duo.log[i].run = a /\ duo.log[i].op = "connect" /\ duo.log[i].ep = ep
              /\ duo.log[j].run # a /\ duo.log[j].op = "disconnect" /\ duo.log[j].ep = ep
              /\ duo.log[j].exit0

-----------------------------------------------------------------------------
(* bt_switch.py: further properties of the run *)

PullWarning == Log("WARNING", "Could not verify disconnect, proceeding anyway.")

\* C23: when the status query returned false and the command of the remote
\* disconnect failed in any way ("not available" included), the warning of
\* the pull has been logged and the run goes on to the local connect: once
\* the run is over the local connect has been issued.
C23_RemoteDisconnectFailureWarnsAndProceeds ==
    (/\ QueryReturned(FALSE)
     /\ \E i \in CallsOf("remote", "disconnect") : calls[i].proc.kind # "exit0")
    => (/\ \E k \in DOMAIN logs : logs[k] = PullWarning
        /\ pc = "done" => CallsOf("local", "connect") # {})

\* the child process of the Driver operation just issued printed its text
\* bare, without blank lines around it
BareOutput ==
    Len(calls') > Len(calls) =>
        LET proc == calls'[Len(calls')].proc
        IN  proc.stdout = Strip(proc.stdout) /\ proc.stderr = Strip(proc.stderr)

\* the steps of a run whose tools print bare text
NextLive == Next /\ BareOutput

\* every command the run issues ends (it completes or its timeout expires),
\* so a run that can take a step eventually takes one
Fairness == WF_vars(NextLive)

\* a run on the default device of this host
InitLive == Init /\ argDevice = NoneArg

SpecLive == InitLive /\ [][NextLive]_vars /\ Fairness

\* C24: every run reaches a terminal state: entry_point returns or exits.
C24_Terminates == <>(pc = "done")

\* a run that went through the push, the failed remote connect and the revert
\* and has ended
C24_Witness ==
    /\ pc = "done"
    /\ Len(calls) = 4
    /\ <<calls[4].ep, calls[4].op>> = <<"local", "connect">>

\* the configuration is loaded and names this host, the target and the device
AliasesResolve ==
    /\ config.tag = "ret"
    /\ hostname \in DOMAIN config.defaults
    /\ OrElse(argTarget, config.defaults[hostname].default_target) \in DOMAIN config.hosts
    /\ OrElse(argDevice, config.defaults[hostname].default_device) \in DOMAIN config.devices

\* the endpoint the target alias resolves to
ResolvedRemote == config.hosts[OrElse(argTarget, config.defaults[hostname].default_target)]

\* a configuration was loaded, and it lacks an alias of the run or its remote
\* endpoint declares a channel or a stack that is not supported
Misconfigured ==
    /\ config.tag = "ret"
    /\ \/ ~AliasesResolve
       \/ ResolvedRemote.protocol # "ssh"
       \/ ResolvedRemote.driver_type # "bluez"

\* C25 as stated: every finished run of a misconfigured setup has exited
\* non-zero with a ConfigurationError and has invoked no Driver operation.
\* A remote endpoint whose address is this host returns before the drivers
\* are created, so its channel and stack are never examined.
C25_MisconfigurationIsFatal ==
    (pc = "done" /\ Misconfigured) =>
        (/\ exitCode # 0
         /\ raised.type = "ConfigurationError"
         /\ calls = <<>>)

\* C25 (amended): a ConfigurationError is always fatal and comes before any
\* bluetooth command: a finished run whose exception was a ConfigurationError
\* has exited non-zero with no Driver operation invoked; and every finished
\* run that lacks an alias, or whose resolved remote endpoint is not this host
\* itself and declares an unsupported channel or stack, has ended so.
C25_ConfigurationErrorIsFatal ==
    pc = "done" =>
        /\ raised.type = "ConfigurationError" => (exitCode # 0 /\ calls = <<>> /\ cmds = <<>>)
        /\ (Misconfigured /\ (AliasesResolve => ResolvedRemote.address # hostname)) =>
              (/\ exitCode # 0
               /\ raised.type = "ConfigurationError"
               /\ calls = <<>>
               /\ cmds = <<>>)

\* a run ended by the unsupported channel of a remote endpoint on another host
C25_Witness ==
    /\ pc = "done"
    /\ AliasesResolve
    /\ ResolvedRemote.address # hostname
    /\ ResolvedRemote.protocol # "ssh"
    /\ raised.type = "ConfigurationError"
    /\ exitCode # 0

\* the status query's child process exited with status 0
QueryExitedZero == Len(calls) >= 1 /\ calls[1].proc.kind = "exit0"

\* its output holds the marker "Connected: yes"
QueryHasMarker == Contains(calls[1].proc.stdout, ConnectedYesMarker)

\* C26: the status query returns true exactly when its command exited with
\* status 0 and printed the marker; when the command exited with status 0
\* without the marker it returns false and the run takes the pull: its later
\* operations are the remote disconnect, then the local connect.
C26_IsConnectedByMarker ==
    Len(calls) >= 1 =>
        /\ (calls[1].res.tag = "ret" /\ calls[1].res.val)
              <=> (QueryExitedZero /\ QueryHasMarker)
        /\ (QueryExitedZero /\ ~QueryHasMarker) =>
              /\ calls[1].res = Ret(FALSE)
              /\ pc \in {"pull_disconnect", "pull_connect", "done"}
              /\ \A i \in 2..Len(calls) :
                    i - 1 <= Len(PullCalls) /\ <<calls[i].ep, calls[i].op>> = PullCalls[i - 1]

\* a query that exited 0 and printed "Connected: no", followed by the pull
C26_Witness ==
    /\ pc = "done"
    /\ QueryExitedZero
    /\ calls[1].proc.stdout \in Padded(OutInfoNo)
    /\ Len(calls) = 3
    /\ <<calls[2].ep, calls[2].op>> = <<"remote", "disconnect">>
    /\ <<calls[3].ep, calls[3].op>> = <<"local", "connect">>

-----------------------------------------------------------------------------
(* ts_exit.py: failures *)

\* the commands toggle has to run from mode before with target
TsPlanOf(run) ==
    IF run.before.using
    THEN <<ExitNodeCmd(""), AdvertiseCmd("true")>>
    ELSE <<AdvertiseCmd("false"), ExitNodeCmd(run.target)>>

\* the mode after the first command of the plan alone
TsAfterFirst(run) ==
    IF run.before.using
    THEN [advertising |-> run.before.advertising, using |-> FALSE]
    ELSE [advertising |-> FALSE, using |-> FALSE]

\* C27: a run of toggle in which a command failed issued the commands of its
\* plan up to the failing one and none after it, kept what the commands before
\* it had changed, and exited with status 1; a run that found no exit node
\* active and had no target issued no tailscale set command and changed
\* nothing.
C27_FailureStopsToggle ==
    /\ \A i \in DOMAIN ts.log :
          LET run == ts.log[i]
          IN  /\ run.outcome = "failed" =>
                    /\ Len(run.cmds) <= 2
                    /\ run.cmds = SubSeq(TsPlanOf(run), 1, Len(run.cmds))
                    /\ run.after = IF Len(run.cmds) = 2 THEN TsAfterFirst(run)
                                                          ELSE run.before
              /\ (~run.before.using /\ run.target = NoneArg) =>
                    (run.cmds = <<>> /\ run.after = run.before)
    /\ (ts.pc = "idle" /\ ts.log # <<>>) =>
          (ts.exit = 1 <=> ts.log[Len(ts.log)].outcome = "failed")

\* a toggle from server mode whose second command failed: the machine has
\* stopped advertising and uses no exit node
C27_Witness ==
    /\ ts.pc = "idle"
    /\ ts.log # <<>>
    /\ LET run == ts.log[Len(ts.log)]
       IN  /\ run.outcome = "failed"
           /\ run.before = ServerMode
           /\ Len(run.cmds) = 2
           /\ run.after = [advertising |-> FALSE, using |-> FALSE]
    /\ ts.exit = 1
    /\ ~ts.advertise

-----------------------------------------------------------------------------
(* convert-images.py *)

\* longest pasted text generated
MaxPaste == 3

PasteChars == {"a", "b", " ", "'"}

\* event.text of a Paste event
PasteTexts == UNION {[1..k -> PasteChars] : k \in 0..MaxPaste}

\* the paths for which Path.is_file() holds
FilesOnDisk == {<<"a">>, <<"a", "b">>}

\* the values of the format Select: its four options, None, and Select.BLANK
\* (what a cleared Select holds depends on the version of textual)
SelectBlank == "<Select.BLANK>"

FormatOptions == {"png", "jpg", "webp", "gif"}

FormatValues == FormatOptions \cup {NoneArg, SelectBlank}

\* process_dropped_files: added_files for the words of a pasted text
AddedFiles(lines) ==
    {lines[i] : i \in {j \in DOMAIN lines : lines[j] # <<>> /\ lines[j] \in FilesOnDisk}}

\* what a handler notes about the event it handled
TuiLast(t, event, text, outcome) ==
    [event |-> event, text |-> text, outcome |-> outcome,
     files |-> t.dropped_files, disabled |-> t.disabled]

\* variant: the pass clears the set and leaves the button as it is
AfterPassButtonKept(t) == [t EXCEPT !.dropped_files = {}]

\* execute_button: self.dropped_files.clear(); button.disabled = True
AfterPass(t) == [t EXCEPT !.dropped_files = {}, !.disabled = TRUE]

InitTui ==
    /\ pc = "tui"
    /\ hostname = ThisHost
    /\ config = [tag |-> "raise", devices |-> <<>>, hosts |-> <<>>, defaults |-> <<>>]
    /\ argTarget = NoneArg
    /\ argDevice = NoneArg
    /\ service = NoService
    /\ connected = [e \in Endpoints |-> FALSE]
    /\ calls = <<>>
    /\ cmds = <<>>
    /\ logs = <<>>
    /\ exitCode = 0
    /\ raised = NoExc
    /\ probe = NoProbe
    /\ ror = NoRor
    /\ ts = NoTs
    /\ world = <<>>
    /\ duo = NoDuo
    /\ tui = [NoTui EXCEPT !.pc = "running"]

TuiFrame ==
    UNCHANGED <<pc, hostname, config, argTarget, argDevice, service, connected,
                calls, cmds, logs, exitCode, raised, probe, ror, ts, world, duo>>

\* process_dropped_files: a Paste event with some text
TuiPaste ==
    /\ tui.pc = "running"
    /\ \E text \in PasteTexts :
         LET r == ShlexSplit(text)
         IN  IF ~r.ok
             THEN tui' = [tui EXCEPT !.pc = "crashed",
                                     !.last = TuiLast(tui, "paste", text, "ValueError")]
             ELSE
               LET added_files == AddedFiles(r.parts)
                   dropped     == tui.dropped_files \cup added_files
               IN  IF added_files = {}
                   THEN tui' = [tui EXCEPT !.last = TuiLast(tui, "paste", text, "ignored")]
                   ELSE tui' = [tui EXCEPT !.dropped_files = dropped,
                                           !.disabled = IF dropped # {} THEN FALSE ELSE @,
                                           !.last = TuiLast(tui, "paste", text, "added")]
    /\ TuiFrame

\* the user picks another value in the format Select
TuiSelectFormat ==
    /\ tui.pc = "running"
    /\ \E f \in FormatValues \ {tui.format} :
         tui' = [tui EXCEPT !.format = f, !.last = TuiLast(tui, "select", <<>>, "changed")]
    /\ TuiFrame

\* execute_button: the enabled button is pressed; convert may be missing
TuiExecute ==
    /\ tui.pc = "running"
    /\ ~tui.disabled
    /\ IF tui.dropped_files = {} \/ tui.format = NoneArg
       THEN tui' = [tui EXCEPT !.last = TuiLast(tui, "execute", <<>>, "error")]
       ELSE IF tui.format = SelectBlank
       THEN tui' = [tui EXCEPT !.pc = "crashed",
                               !.last = TuiLast(tui, "execute", <<>>, "AttributeError")]
       ELSE \/ tui' = [tui EXCEPT !.last = TuiLast(tui, "execute", <<>>, "fatal")]
            \/ tui' = [AfterPass(tui) EXCEPT !.last = TuiLast(tui, "execute", <<>>, "finished")]
    /\ TuiFrame

NextTui ==
    \/ TuiPaste
    \/ TuiSelectFormat
    \/ TuiExecute

SpecTui == InitTui /\ [][NextTui]_vars

\* a pasted text that shell-splits into words of which one is a file
HasValidFile(text) ==
    /\ ShlexSplit(text).ok
    /\ \E i \in DOMAIN ShlexSplit(text).parts : ShlexSplit(text).parts[i] \in FilesOnDisk

\* C28: the execute button is enabled exactly when the set of dropped files
\* is not empty. After a drop with a valid file the button is enabled and the
\* set holds what it held and more; after a drop without one the set and the
\* button are as before; after a completed conversion pass the set is empty
\* and the button disabled.
C28_ButtonFollowsFiles ==
    /\ ~tui.disabled <=> tui.dropped_files # {}
    /\ tui.last.event = "paste" =>
          IF HasValidFile(tui.last.text)
          THEN /\ ~tui.disabled
               /\ tui.last.files \subseteq tui.dropped_files
               /\ tui.dropped_files \cap FilesOnDisk # {}
          ELSE /\ tui.dropped_files = tui.last.files
               /\ tui.disabled = tui.last.disabled
    /\ (tui.last.event = "execute" /\ tui.last.outcome = "finished") =>
          (tui.dropped_files = {} /\ tui.disabled)

\* a pass has completed after files were dropped: the set is empty again and
\* the button disabled
C28_Witness ==
    /\ tui.last.event = "execute"
    /\ tui.last.outcome = "finished"
    /\ tui.last.files # {}
    /\ ~tui.last.disabled
    /\ tui.dropped_files = {}
    /\ tui.disabled

====
